---- MODULE Spec2Model ----
(***************************************************************************)
(* candango/httpok, package session: the Store backends (MemoryStore,      *)
(* FileStore) and the StoreEngine that drives them (Start, Stop, the       *)
(* periodic purge task).                                                   *)
(*                                                                         *)
(* Time is one integer clock `now`: time.Now() reads it, time.Since(t) is  *)
(* now - t.  Byte payloads are the members of Values; NoValue is nil.      *)
(* Keys are integers: the FileStore's directory listing (os.ReadDir sorts  *)
(* by file name) visits them in increasing order.                          *)
(***************************************************************************)
EXTENDS Integers, FiniteSets, Sequences, TLC

\* ---------------------------------------------------------------- bounds
NumKeys == 2
MaxTime == 2
NumCallers == 2

Keys == 1..NumKeys
Times == 0..MaxTime
Callers == 1..NumCallers

\* the payloads stored: two distinct byte strings, and nil
Values == {"bar", "val"}
NoValue == "<nil>"

\* the empty id "", which is no key of the store
EmptyId == 0
NoTime == 0 - 1

\* no caller holds the lock
NoCaller == 0

\* what a file holds between os.OpenFile(O_TRUNC) and file.Write: nothing
Truncated == ""

\* EngineProperties.AgeLimit, in ticks of the clock
AgeLimit == 1

\* error values (the `error` results of the Go methods)
Nil == "nil"
ErrNotFound == "not found"
ErrSessionNotFound == "session not found"
ErrDir == "session dir error"
ErrStat == "file info error"
ErrAlreadyStarted == "store engine already started"
ErrDisabled == "engine is disabled"
ErrEmptyId == "session id is empty"
ErrEncode == "json: unsupported type"
ErrDecode == "json: invalid character"
ErrDestroyed == "the session is already destroyed, renew the session before using it"
ErrNoEngine == "engine value not found into the conext"
ErrEOF == "EOF"

VARIABLES
    now,        \* the clock read by time.Now()
    kind,       \* which Store the program was built with
    data,       \* MemoryStore.data: id -> memoryEntry
    dirKind,    \* what FileStore.Dir is on disk: "missing", "dir" or "file"
    files,      \* the *.sess files of FileStore.Dir: id -> content and mtime
    ret,        \* the last operation that returned, and what it returned
    settled,    \* history: id -> value of the last successful Set, NoValue
                \*   once a Delete of the id or a Purge ran after it
    refreshed,  \* history: id -> time of the last successful Set or Touch,
                \*   NoTime once the id was deleted or its idle time exceeded
                \*   the maxAge of a successful Purge
    started,    \* StoreEngine.started
    purgeDone,  \* StoreEngine.purgeDone: "nil", "open" or "closed"
    enabled,    \* StoreEngine.properties.Enabled
    ctxDone,    \* caller -> whether the context it passes to Start is cancelled
    startPc,    \* caller -> where the caller is inside StoreEngine.Start
    tasks,      \* the periodicPurge goroutines launched so far, in launch order
    mu,         \* FileStore.mu: the caller that holds it in Set, or NoCaller
    calls,      \* caller -> the Store method the caller is inside, and where
    session,    \* a Session value in the hands of a handler: its fields
    result,     \* what the last method called on that Session returned
    request,    \* the request inside the Sessioned middleware: its cookie,
                \*   where the middleware is, the calls it made so far
    chain,      \* the middlewares passed to Chain, the handler it built and
                \*   the request that handler is serving
    server,     \* a GracefulServer: its fields, its goroutines, its channels
    sess,       \* the engine operation (GetSession, SaveSession, SessionExists,
                \*   Purge) in progress or last returned: its id, where it is,
                \*   when GetSession was called, the calls it made and what
                \*   each returned, the Session and the error it returned
    hist        \* history of the engine: whether a Start was issued, whether
                \*   Stop was called on the started engine, how many times
                \*   Store.Start was called and how many Starts returned nil,
                \*   whether a task called Store.Purge, whether a purge of a
                \*   task failed

storeVars == <<now, kind, data, dirKind, files, ret, settled, refreshed>>
lifeVars == <<started, purgeDone, enabled, ctxDone, startPc, tasks, hist>>
objVars == <<session, result, request, chain, server>>
opVars == <<mu, calls, sess, objVars>>
engineVars == <<lifeVars, opVars>>
vars == <<now, kind, data, dirKind, files, ret, settled, refreshed,
          started, purgeDone, enabled, ctxDone, startPc, tasks, hist,
          mu, calls, sess, session, result, request, chain, server>>

\* ------------------------------------------------------------ results
Ret(op, key, val, ok, err, arg) ==
    [op |-> op, key |-> key, val |-> val, ok |-> ok, err |-> err, arg |-> arg]

\* m with key k removed, as Go's delete(m, k) and os.Remove leave it
Without(m, k) == [j \in DOMAIN m \ {k} |-> m[j]]

\* m with key k bound to e
With(m, k, e) == [j \in DOMAIN m \cup {k} |-> IF j = k THEN e ELSE m[j]]

\* ------------------------------------------------------- MemoryStore
\* (mutant) an entry whose age equals maxAge counts as expired
Expired_AtLimit(e, maxAge, t) == t - e.LastTouched >= maxAge

\* memoryEntry.Expired: time.Since(e.LastTouched) > maxAge
Expired(e, maxAge, t) == t - e.LastTouched > maxAge

MemoryStoreInit == [j \in {} |-> [Value |-> NoValue, LastTouched |-> 0]]

\* (mutant) a Delete that empties the map
MemoryDeleteData_All(d, id) == MemoryStoreInit

MemoryDeleteData(d, id) == Without(d, id)

\* (mutant) an Exists that only looks whether the map holds anything
MemoryExistsResult_Any(d, id) == DOMAIN d # {}

MemoryExistsResult(d, id) == id \in DOMAIN d

\* (mutant) a Get that returns the zero value of a missing key, as a map
\* lookup without the ok check does
MemoryGetResult_ZeroValue(d, id) ==
    IF id \in DOMAIN d THEN [val |-> d[id].Value, err |-> Nil]
    ELSE [val |-> NoValue, err |-> Nil]

MemoryGetResult(d, id) ==
    IF id \in DOMAIN d THEN [val |-> d[id].Value, err |-> Nil]
    ELSE [val |-> NoValue, err |-> ErrNotFound]

\* (mutant) Set on an existing id refreshes the clock and keeps the old value
MemorySetData_KeepValue(d, id, val, t) ==
    With(d, id, [Value |-> IF id \in DOMAIN d THEN d[id].Value ELSE val,
                 LastTouched |-> t])

MemorySetData(d, id, val, t) == With(d, id, [Value |-> val, LastTouched |-> t])

\* (mutant) a Purge that stamps the entries it keeps
MemoryPurgeData_Stamp(d, maxAge, t) ==
    [j \in {i \in DOMAIN d : ~Expired(d[i], maxAge, t)} |->
        [Value |-> d[j].Value, LastTouched |-> t]]

MemoryPurgeData(d, maxAge, t) ==
    [j \in {i \in DOMAIN d : ~Expired(d[i], maxAge, t)} |-> d[j]]

\* (mutant) a Touch that creates the entry it does not find
MemoryTouchResult_Create(d, id, t) ==
    [data |-> With(d, id, [Value |-> IF id \in DOMAIN d THEN d[id].Value
                                     ELSE NoValue,
                           LastTouched |-> t]),
     err |-> Nil]

MemoryTouchResult(d, id, t) ==
    IF id \in DOMAIN d
    THEN [data |-> With(d, id, [Value |-> d[id].Value, LastTouched |-> t]),
          err |-> Nil]
    ELSE [data |-> d, err |-> ErrNotFound]

\* --------------------------------------------------------- FileStore
FileStoreInit == [j \in {} |-> [content |-> NoValue, ModTime |-> 0]]

\* pathx.Exists(sessFile)
FileExists(fs, id) == id \in DOMAIN fs

\* FileStore.Start: the directory is made when it is missing; a regular file
\* of that name is an error
FileStartResult(dk) ==
    CASE dk = "missing" -> [dirKind |-> "dir", err |-> Nil]
      [] dk = "dir" -> [dirKind |-> "dir", err |-> Nil]
      [] OTHER -> [dirKind |-> dk, err |-> ErrDir]

\* os.Remove(sessFile)
FileRemove(fs, id) ==
    IF id \in DOMAIN fs THEN [files |-> Without(fs, id), err |-> Nil]
    ELSE [files |-> fs, err |-> ErrStat]

\* (mutant) a Delete that reports a missing file
FileDeleteResult_Strict(fs, id) ==
    IF ~FileExists(fs, id) THEN [files |-> fs, err |-> ErrSessionNotFound]
    ELSE FileRemove(fs, id)

FileDeleteResult(fs, id) ==
    IF ~FileExists(fs, id) THEN [files |-> fs, err |-> Nil]
    ELSE FileRemove(fs, id)

\* os.ReadFile(sessFile)
FileReadFile(fs, id) ==
    IF id \in DOMAIN fs THEN [val |-> fs[id].content, err |-> Nil]
    ELSE [val |-> NoValue, err |-> ErrStat]

FileGetResult(fs, id) ==
    IF ~FileExists(fs, id) THEN [val |-> NoValue, err |-> ErrSessionNotFound]
    ELSE FileReadFile(fs, id)

\* os.OpenFile(O_WRONLY|O_CREATE|O_TRUNC) and Write: both set the mtime
\* (mutant) a Set that leaves the mtime of an existing file as it was
FileSetResult_KeepMTime(dk, fs, id, val, t) ==
    IF dk # "dir" THEN [files |-> fs, err |-> ErrDir]
    ELSE [files |-> With(fs, id, [content |-> val,
                                  ModTime |-> IF id \in DOMAIN fs
                                              THEN fs[id].ModTime ELSE t]),
          err |-> Nil]

FileSetResult(dk, fs, id, val, t) ==
    IF dk # "dir" THEN [files |-> fs, err |-> ErrDir]
    ELSE [files |-> With(fs, id, [content |-> val, ModTime |-> t]), err |-> Nil]

\* (mutant) a Chtimes that also empties the file
FileChtimes_Truncate(fs, id, t) ==
    IF id \in DOMAIN fs
    THEN [files |-> With(fs, id, [content |-> Truncated, ModTime |-> t]),
          err |-> Nil]
    ELSE [files |-> fs, err |-> ErrStat]

\* os.Chtimes(sessFile, now, now)
FileChtimes(fs, id, t) ==
    IF id \in DOMAIN fs
    THEN [files |-> With(fs, id, [content |-> fs[id].content, ModTime |-> t]),
          err |-> Nil]
    ELSE [files |-> fs, err |-> ErrStat]

\* (mutant) Touch does nothing and reports success
FileTouchResult_Stub(fs, id, t) == [files |-> fs, err |-> Nil]

FileTouchResult(fs, id, t) ==
    IF ~FileExists(fs, id) THEN [files |-> fs, err |-> ErrSessionNotFound]
    ELSE FileChtimes(fs, id, t)

\* os.ReadDir(s.Dir): the names in the directory
FileReadDir(dk, fs) ==
    IF dk # "dir" THEN [list |-> {}, err |-> ErrDir]
    ELSE [list |-> DOMAIN fs, err |-> Nil]

First(list) == CHOOSE f \in list : \A g \in list : f <= g

\* the loop of FileStore.Purge over the listing, in name order: file.Info()
\* stats the file when it is called (unix), so a listed file that is gone
\* ends the loop with an error
RECURSIVE FilePurgeScan(_, _, _, _)
FilePurgeScan(fs, list, maxAge, t) ==
    IF list = {} THEN [files |-> fs, err |-> Nil]
    ELSE LET f == First(list) IN
         IF f \notin DOMAIN fs THEN [files |-> fs, err |-> ErrStat]
         ELSE IF t - fs[f].ModTime > maxAge
              THEN FilePurgeScan(Without(fs, f), list \ {f}, maxAge, t)
              ELSE FilePurgeScan(fs, list \ {f}, maxAge, t)

FilePurgeResult(dk, fs, maxAge, t) ==
    LET dir == FileReadDir(dk, fs) IN
    IF dir.err # Nil THEN [files |-> fs, err |-> dir.err]
    ELSE FilePurgeScan(fs, dir.list, maxAge, t)

\* ------------------------------------------------ the Store in use
\* Store.RequiresPurge: true for MemoryStore and FileStore, false for a
\* store with native expiry
RequiresPurge(k) == k \in {"memory", "file"}

\* the entries of the store in use, as id -> [Value, LastTouched]
Entries ==
    IF kind = "file"
    THEN [j \in DOMAIN files |->
            [Value |-> files[j].content, LastTouched |-> files[j].ModTime]]
    ELSE data

Present(id) == id \in DOMAIN Entries

\* --------------------------------------------- history of the claims
\* what the last event on an id was, and when its expiry clock was last
\* refreshed by a successful Set or Touch
Event(by, at) == [by |-> by, at |-> at]

\* whether a Purge(maxAge) at time t is due to remove an id with history e
Idle(e, maxAge, t) == e.at # NoTime /\ t - e.at > maxAge

\* after a successful Purge(maxAge) at time t
PurgedHistory(h, maxAge, t) ==
    [k \in Keys |-> IF Idle(h[k], maxAge, t) THEN Event("Purge", NoTime) ELSE h[k]]

PurgedSettled(s, h, maxAge, t) ==
    [k \in Keys |-> IF Idle(h[k], maxAge, t) THEN NoValue ELSE s[k]]

\* a caller inside no Store method
IdleCall == [op |-> "none", id |-> EmptyId, val |-> NoValue, pc |-> "idle"]

\* the zero Session{}, as the engine returns it beside an error
Session(id, changed, d, destroyed) ==
    [Id |-> id, Changed |-> changed, Data |-> d, Destroyed |-> destroyed]

NoData == "nil map"

\* no engine operation was called yet
NoSess ==
    [op |-> "none", id |-> EmptyId, pc |-> "done", at |-> 0,
     bytes |-> NoValue, log |-> <<>>, ok |-> FALSE, err |-> Nil,
     out |-> Session(EmptyId, FALSE, NoData, FALSE)]

\* the fields of a Session: Data is a Go map, which is nil (DataNil) or a
\* map from keys to values
SessionValue(id, changed, ctx, isNil, m, destroyed) ==
    [Id |-> id, Changed |-> changed, Ctx |-> ctx, DataNil |-> isNil,
     Data |-> m, Destroyed |-> destroyed]

\* map[string]any{}
EmptyMap == [k \in {} |-> NoValue]

\* the zero Session{}: no handler holds a Session
NoSession == SessionValue(EmptyId, FALSE, "nil", TRUE, EmptyMap, FALSE)

\* what a method of Session returned: its value, its bool, its error,
\* whether it panicked, and the writes it made through the engine
MethodResult(op, key, val, ok, err, panic, stored) ==
    [op |-> op, key |-> key, val |-> val, ok |-> ok, err |-> err,
     panic |-> panic, stored |-> stored]

NoResult == MethodResult("none", "", NoValue, FALSE, Nil, FALSE, <<>>)

\* no request is inside the Sessioned middleware
NoRequest ==
    [pc |-> "idle", cookie |-> [present |-> FALSE, value |-> EmptyId],
     fromServer |-> FALSE, id |-> EmptyId, newIds |-> 0,
     s |-> [Id |-> EmptyId, Data |-> NoData], status |-> "none", log |-> <<>>]

\* Chain was not called yet
NoChain == [ms |-> <<>>, handler |-> <<>>, todo |-> <<>>, ran |-> <<>>,
            blocked |-> FALSE, pc |-> "new"]

\* no GracefulServer was built yet.  Of a server: whether it has a
\* CancelFunc and whether its Logger's Fatalf ends the process; where Run
\* is; s.cancel; the context of Run; the signal channel; ListenAndServe; the
\* goroutine that waits for the shutdown; the channel done; whether the
\* process was ended; the calls made for the shutdown; what the last
\* TriggerShutdown returned
NoServer ==
    [built |-> FALSE, hasCancelFunc |-> FALSE, fatalExits |-> TRUE,
     run |-> "idle", cancelSet |-> FALSE, ctxDone |-> FALSE,
     notified |-> FALSE, sig |-> FALSE, listen |-> "none",
     waiter |-> "none", done |-> FALSE, exited |-> FALSE, log |-> <<>>,
     lastTrigger |-> "none"]

\* ------------------------------------- Store operations, one per call
\* Each action is one whole method of the Store in use, run with no other
\* operation of the store overlapping it.
StoreStartResult(k, dk) ==
    IF k = "file" THEN FileStartResult(dk) ELSE [dirKind |-> dk, err |-> Nil]

StoreStart ==
    /\ LET r == StoreStartResult(kind, dirKind) IN
       /\ dirKind' = r.dirKind
       /\ ret' = Ret("StoreStart", EmptyId, NoValue, FALSE, r.err, 0)
    /\ UNCHANGED <<now, kind, data, files, settled, refreshed>>

StoreSet(id, val) ==
    /\ LET r == IF kind = "file"
                THEN FileSetResult(dirKind, files, id, val, now)
                ELSE [files |-> files, err |-> Nil] IN
       /\ files' = r.files
       /\ data' = IF kind = "memory" THEN MemorySetData(data, id, val, now)
                  ELSE data
       /\ ret' = Ret("Set", id, val, FALSE, r.err, 0)
       /\ settled' = [settled EXCEPT ![id] = IF r.err = Nil THEN val ELSE NoValue]
       /\ refreshed' = IF r.err = Nil
                       THEN [refreshed EXCEPT ![id] = Event("Set", now)]
                       ELSE refreshed
    /\ UNCHANGED <<now, kind, dirKind>>

StoreGet(id) ==
    /\ LET r == IF kind = "file" THEN FileGetResult(files, id)
                ELSE MemoryGetResult(data, id) IN
       ret' = Ret("Get", id, r.val, FALSE, r.err, 0)
    /\ UNCHANGED <<now, kind, data, dirKind, files, settled, refreshed>>

StoreExists(id) ==
    /\ LET ok == IF kind = "file" THEN FileExists(files, id)
                 ELSE MemoryExistsResult(data, id) IN
       ret' = Ret("Exists", id, NoValue, ok, Nil, 0)
    /\ UNCHANGED <<now, kind, data, dirKind, files, settled, refreshed>>

StoreDelete(id) ==
    /\ LET r == IF kind = "file" THEN FileDeleteResult(files, id)
                ELSE [files |-> files, err |-> Nil] IN
       /\ files' = r.files
       /\ data' = IF kind = "memory" THEN MemoryDeleteData(data, id) ELSE data
       /\ ret' = Ret("Delete", id, NoValue, FALSE, r.err, 0)
    /\ settled' = [settled EXCEPT ![id] = NoValue]
    /\ refreshed' = [refreshed EXCEPT ![id] = Event("none", NoTime)]
    /\ UNCHANGED <<now, kind, dirKind>>

StoreTouch(id) ==
    /\ LET r == IF kind = "file"
                THEN [data |-> data] @@ FileTouchResult(files, id, now)
                ELSE [files |-> files] @@ MemoryTouchResult(data, id, now) IN
       /\ files' = r.files
       /\ data' = r.data
       /\ ret' = Ret("Touch", id, NoValue, FALSE, r.err, 0)
       /\ refreshed' = IF r.err = Nil
                       THEN [refreshed EXCEPT ![id] = Event("Touch", now)]
                       ELSE refreshed
    /\ UNCHANGED <<now, kind, dirKind, settled>>

StorePurge(maxAge) ==
    /\ LET r == IF kind = "file"
                THEN FilePurgeResult(dirKind, files, maxAge, now)
                ELSE [files |-> files, err |-> Nil] IN
       /\ files' = r.files
       /\ data' = IF kind = "memory" THEN MemoryPurgeData(data, maxAge, now)
                  ELSE data
       /\ ret' = Ret("Purge", EmptyId, NoValue, FALSE, r.err, maxAge)
       /\ refreshed' = IF r.err = Nil THEN PurgedHistory(refreshed, maxAge, now)
                       ELSE refreshed
       /\ settled' = IF r.err = Nil
                     THEN PurgedSettled(settled, refreshed, maxAge, now)
                     ELSE settled
    /\ UNCHANGED <<now, kind, dirKind>>

\* time passes
Tick ==
    /\ now < MaxTime
    /\ now' = now + 1
    /\ UNCHANGED <<kind, data, dirKind, files, ret, settled, refreshed>>

InitStoreVars ==
    /\ now = 0
    /\ data = MemoryStoreInit
    /\ files = FileStoreInit
    /\ ret = [op |-> "none", key |-> EmptyId, val |-> NoValue, ok |-> FALSE,
              err |-> Nil, arg |-> 0]
    /\ settled = [k \in Keys |-> NoValue]
    /\ refreshed = [k \in Keys |-> Event("none", NoTime)]

InitEngineFields ==
    /\ started = FALSE
    /\ purgeDone = "nil"
    /\ enabled = TRUE
    /\ ctxDone = [c \in Callers |-> FALSE]
    /\ startPc = [c \in Callers |-> "idle"]
    /\ tasks = <<>>
    /\ hist = [entered |-> FALSE, stopped |-> FALSE, storeStarts |-> 0,
               okStarts |-> 0, timerPurged |-> FALSE, purgeFailed |-> FALSE]
    /\ mu = NoCaller
    /\ calls = [c \in Callers |-> IdleCall]
    /\ sess = NoSess
    /\ request = NoRequest
    /\ chain = NoChain
    /\ server = NoServer

InitEngineVars ==
    /\ InitEngineFields
    /\ session = NoSession
    /\ result = NoResult

\* a MemoryStore or a FileStore used directly; the directory of the
\* FileStore is whatever the disk holds before the program runs
Init ==
    /\ InitStoreVars
    /\ InitEngineVars
    /\ \/ kind = "memory" /\ dirKind = "missing"
       \/ kind = "file" /\ dirKind \in {"missing", "dir", "file"}

Next ==
    \/ StoreStart /\ UNCHANGED engineVars
    \/ \E id \in Keys, val \in Values : StoreSet(id, val) /\ UNCHANGED engineVars
    \/ \E id \in Keys : StoreGet(id) /\ UNCHANGED engineVars
    \/ \E id \in Keys : StoreExists(id) /\ UNCHANGED engineVars
    \/ \E id \in Keys : StoreDelete(id) /\ UNCHANGED engineVars
    \/ \E id \in Keys : StoreTouch(id) /\ UNCHANGED engineVars
    \/ \E maxAge \in Times : StorePurge(maxAge) /\ UNCHANGED engineVars
    \/ Tick /\ UNCHANGED engineVars

Spec == Init /\ [][Next]_vars

\* -------------------------------------------------------- StoreEngine
\* A store with native expiry is known by its contract alone: Start and
\* Purge succeed and leave the model's state alone.
NativeStartResult(dk) == [dirKind |-> dk, err |-> Nil]

\* e.Store.Start(ctx)
EngineStoreStart(k, dk) ==
    IF k = "native" THEN NativeStartResult(dk) ELSE StoreStartResult(k, dk)

\* (mutant) Start never refuses
StartRefused_Never(s) == FALSE

\* `if e.started { return errors.New("store engine already started") }`
StartRefused(s) == s

\* (mutant) the purge task is launched for every store
LaunchesTask_Always(k) == TRUE

\* `if e.RequiresPurge() { ...; go e.periodicPurge(ctx) }`
LaunchesTask(k) == RequiresPurge(k)

\* (mutant) the task's select has no ctx.Done() case
ExitReady_NoCtx(pd, cancelled) == pd = "closed"

\* the cases `<-e.purgeDone` and `<-ctx.Done()` of the task's select: a
\* closed channel is ready, an open or nil one never is
ExitReady(pd, cancelled) == pd = "closed" \/ cancelled

\* (mutant) the task returns the error of a failed purge
AfterPurge_ReturnError(err) == IF err = Nil THEN "select" ELSE "done"

\* (mutant) a Purge that ignores the enabled flag
PurgeRefused_Never(en) == FALSE

\* `if !e.properties.Enabled { return errors.New("engine is disabled") }`
PurgeRefused(en) == ~en

\* where the task goes when e.Purge(ctx) has returned err: the error is
\* logged, a new ticker is made and the loop goes on
AfterPurge(err) == "select"

\* a periodicPurge goroutine at its first select, its ticker running
NewTask(c) ==
    [ctx |-> c, pc |-> "select", tick |-> FALSE, list |-> {}]

NoStartInProgress == \A c \in Callers : startPc[c] = "idle"

\* StoreEngine.Start, statement by statement: the check of e.started
StartEnter(c) ==
    /\ startPc[c] = "idle"
    /\ IF StartRefused(started)
       THEN /\ ret' = Ret("Start", EmptyId, NoValue, FALSE, ErrAlreadyStarted, 0)
            /\ UNCHANGED startPc
       ELSE /\ startPc' = [startPc EXCEPT ![c] = "mark"]
            /\ UNCHANGED ret
    /\ hist' = [hist EXCEPT !.entered = TRUE]
    /\ UNCHANGED <<opVars, now, kind, data, dirKind, files, settled, refreshed,
                   started, purgeDone, enabled, ctxDone, tasks>>

\* a Start issued when no other Start is running
StartEnterSeq(c) == NoStartInProgress /\ StartEnter(c)

\* (mutant) a Start that does not mark the engine before Store.Start
StartMark_Late(c) ==
    /\ startPc[c] = "mark"
    /\ startPc' = [startPc EXCEPT ![c] = "launch"]
    /\ UNCHANGED <<opVars, now, kind, data, dirKind, files, ret, settled, refreshed,
                   started, purgeDone, enabled, ctxDone, tasks, hist>>

\* e.started = true
StartMark(c) ==
    /\ startPc[c] = "mark"
    /\ started' = TRUE
    /\ startPc' = [startPc EXCEPT ![c] = "launch"]
    /\ UNCHANGED <<opVars, now, kind, data, dirKind, files, ret, settled, refreshed,
                   purgeDone, enabled, ctxDone, tasks, hist>>

\* e.purgeDone = make(chan struct{}); go e.periodicPurge(ctx)
StartLaunch(c) ==
    /\ startPc[c] = "launch"
    /\ IF LaunchesTask(kind)
       THEN /\ purgeDone' = "open"
            /\ tasks' = Append(tasks, NewTask(c))
       ELSE UNCHANGED <<purgeDone, tasks>>
    /\ startPc' = [startPc EXCEPT ![c] = "store"]
    /\ UNCHANGED <<opVars, now, kind, data, dirKind, files, ret, settled, refreshed,
                   started, enabled, ctxDone, hist>>

\* return e.Store.Start(ctx)
StartStore(c) ==
    /\ startPc[c] = "store"
    /\ LET r == EngineStoreStart(kind, dirKind) IN
       /\ dirKind' = r.dirKind
       /\ ret' = Ret("Start", EmptyId, NoValue, FALSE, r.err, 0)
       /\ hist' = [hist EXCEPT !.storeStarts = @ + 1,
                               !.okStarts = IF r.err = Nil THEN @ + 1 ELSE @]
    /\ startPc' = [startPc EXCEPT ![c] = "idle"]
    /\ UNCHANGED <<opVars, now, kind, data, files, settled, refreshed,
                   started, purgeDone, enabled, ctxDone, tasks>>

\* StoreEngine.Stop: e.Store.Stop(ctx), which MemoryStore and FileStore
\* answer with nil; e.purgeDone is not touched
Stop(c) ==
    /\ startPc[c] = "idle"
    /\ ret' = Ret("Stop", EmptyId, NoValue, FALSE, Nil, 0)
    /\ hist' = [hist EXCEPT !.stopped = @ \/ started]
    /\ UNCHANGED <<opVars, now, kind, data, dirKind, files, settled, refreshed,
                   started, purgeDone, enabled, ctxDone, startPc, tasks>>

\* a Stop issued when no Start is running
StopSeq(c) == NoStartInProgress /\ Stop(c)

\* the owner of the context caller c passes to Start cancels it
Cancel(c) ==
    /\ ~ctxDone[c]
    /\ ctxDone' = [ctxDone EXCEPT ![c] = TRUE]
    /\ UNCHANGED <<opVars, now, kind, data, dirKind, files, ret, settled, refreshed,
                   started, purgeDone, enabled, startPc, tasks, hist>>

\* e.Properties().Enabled = b
SetEnabled(b) ==
    /\ enabled # b
    /\ enabled' = b
    /\ UNCHANGED <<opVars, now, kind, data, dirKind, files, ret, settled, refreshed,
                   started, purgeDone, ctxDone, startPc, tasks, hist>>

\* ----------------------------------------------- periodicPurge, task i
TaskAt(i, pc) == i \in DOMAIN tasks /\ tasks[i].pc = pc

\* PurgeDuration has passed: the running ticker puts a tick in ticker.C
TickerFire(i) ==
    /\ TaskAt(i, "select")
    /\ ~tasks[i].tick
    /\ tasks' = [tasks EXCEPT ![i].tick = TRUE]
    /\ UNCHANGED <<opVars, now, kind, data, dirKind, files, ret, settled, refreshed,
                   started, purgeDone, enabled, ctxDone, startPc, hist>>

\* case <-ticker.C: ticker.Stop()
TaskTick(i) ==
    /\ TaskAt(i, "select")
    /\ tasks[i].tick
    /\ tasks' = [tasks EXCEPT ![i].tick = FALSE, ![i].pc = "purge"]
    /\ UNCHANGED <<opVars, now, kind, data, dirKind, files, ret, settled, refreshed,
                   started, purgeDone, enabled, ctxDone, startPc, hist>>

\* e.Purge(ctx): the Enabled check, then e.Store.Purge(ctx, AgeLimit).  The
\* MemoryStore purges under its lock in one step; the FileStore reads the
\* directory here and scans it in TaskScan, once it holds its lock.
TaskPurge(i) ==
    /\ TaskAt(i, "purge")
    /\ IF PurgeRefused(enabled)
       THEN /\ tasks' = [tasks EXCEPT ![i].pc = AfterPurge(ErrDisabled)]
            /\ hist' = [hist EXCEPT !.purgeFailed = TRUE]
            /\ UNCHANGED <<data, settled, refreshed>>
       ELSE /\ CASE kind = "memory" ->
                    /\ data' = MemoryPurgeData(data, AgeLimit, now)
                    /\ refreshed' = PurgedHistory(refreshed, AgeLimit, now)
                    /\ settled' = PurgedSettled(settled, refreshed, AgeLimit, now)
                    /\ tasks' = [tasks EXCEPT ![i].pc = AfterPurge(Nil)]
                    /\ hist' = [hist EXCEPT !.timerPurged = TRUE]
                 [] kind = "file" ->
                    LET dir == FileReadDir(dirKind, files) IN
                    /\ tasks' = IF dir.err # Nil
                                THEN [tasks EXCEPT ![i].pc = AfterPurge(dir.err)]
                                ELSE [tasks EXCEPT ![i].list = dir.list,
                                                   ![i].pc = "scan"]
                    /\ hist' = [hist EXCEPT !.timerPurged = TRUE,
                                            !.purgeFailed = @ \/ dir.err # Nil]
                    /\ UNCHANGED <<data, settled, refreshed>>
                 [] OTHER ->
                    /\ tasks' = [tasks EXCEPT ![i].pc = AfterPurge(Nil)]
                    /\ hist' = [hist EXCEPT !.timerPurged = TRUE]
                    /\ UNCHANGED <<data, settled, refreshed>>
    /\ UNCHANGED <<opVars, now, kind, dirKind, files, ret,
                   started, purgeDone, enabled, ctxDone, startPc>>

\* FileStore.Purge from s.mu.Lock() on: the loop over the listing
TaskScan(i) ==
    /\ TaskAt(i, "scan")
    /\ LET r == FilePurgeScan(files, tasks[i].list, AgeLimit, now) IN
       /\ files' = r.files
       /\ refreshed' = IF r.err = Nil THEN PurgedHistory(refreshed, AgeLimit, now)
                       ELSE refreshed
       /\ settled' = IF r.err = Nil
                     THEN PurgedSettled(settled, refreshed, AgeLimit, now)
                     ELSE settled
       /\ tasks' = [tasks EXCEPT ![i].list = {}, ![i].pc = AfterPurge(r.err)]
       /\ hist' = [hist EXCEPT !.purgeFailed = @ \/ r.err # Nil]
    /\ UNCHANGED <<opVars, now, kind, data, dirKind, ret,
                   started, purgeDone, enabled, ctxDone, startPc>>

\* case <-e.purgeDone, case <-ctx.Done(): return nil
TaskExit(i) ==
    /\ TaskAt(i, "select")
    /\ ExitReady(purgeDone, ctxDone[tasks[i].ctx])
    /\ tasks' = [tasks EXCEPT ![i].pc = "done"]
    /\ UNCHANGED <<opVars, now, kind, data, dirKind, files, ret, settled, refreshed,
                   started, purgeDone, enabled, ctxDone, startPc, hist>>

TaskStep(i) ==
    \/ TickerFire(i)
    \/ TaskTick(i)
    \/ TaskPurge(i)
    \/ TaskScan(i)
    \/ TaskExit(i)

\* an engine built by NewStoreEngine over any of the three stores
EngineInit ==
    /\ InitStoreVars
    /\ InitEngineVars
    /\ \/ kind \in {"memory", "native"} /\ dirKind = "missing"
       \/ kind = "file" /\ dirKind \in {"missing", "dir", "file"}

EngineEnv ==
    \/ \E c \in Callers : Cancel(c)
    \/ \E b \in BOOLEAN : SetEnabled(b)

StartRest(c) ==
    \/ StartMark(c)
    \/ StartLaunch(c)
    \/ StartStore(c)

\* the goroutine scheduler runs a task that can take a step; a select with
\* a ready case that is offered again and again takes it in the end
TaskFairness ==
    \A i \in Callers :
        /\ WF_vars(TickerFire(i))
        /\ WF_vars(TaskTick(i))
        /\ WF_vars(TaskPurge(i))
        /\ WF_vars(TaskScan(i))
        /\ SF_vars(TaskExit(i))

\* Start calls issued one after another
EngineSeqNext ==
    \/ \E c \in Callers : StartEnterSeq(c)
    \/ \E c \in Callers : StartRest(c)
    \/ \E c \in Callers : StopSeq(c)
    \/ EngineEnv
    \/ \E i \in Callers : TaskStep(i)

EngineSeqSpec == EngineInit /\ [][EngineSeqNext]_vars /\ TaskFairness

\* Start calls issued by concurrent callers
EngineNext ==
    \/ \E c \in Callers : StartEnter(c)
    \/ \E c \in Callers : StartRest(c)
    \/ \E c \in Callers : Stop(c)
    \/ EngineEnv
    \/ \E i \in Callers : TaskStep(i)

EngineSpec == EngineInit /\ [][EngineNext]_vars /\ TaskFairness

\* An engine over a MemoryStore or a FileStore that is started, stays
\* enabled, is never stopped and whose context is never cancelled, while
\* callers set, touch and delete entries, one call at a time, and time
\* passes.
PurgeLiveInit == EngineInit /\ kind # "native"

PurgeLiveNext ==
    \/ \E c \in Callers : StartEnterSeq(c)
    \/ \E c \in Callers : StartRest(c)
    \/ \E id \in Keys, val \in Values : StoreSet(id, val) /\ UNCHANGED engineVars
    \/ \E id \in Keys : StoreTouch(id) /\ UNCHANGED engineVars
    \/ \E id \in Keys : StoreDelete(id) /\ UNCHANGED engineVars
    \/ Tick /\ UNCHANGED engineVars
    \/ \E i \in Callers : TickerFire(i)
    \/ \E i \in Callers : TaskTick(i)
    \/ \E i \in Callers : TaskPurge(i)
    \/ \E i \in Callers : TaskScan(i)

PurgeLiveSpec ==
    /\ PurgeLiveInit
    /\ [][PurgeLiveNext]_vars
    /\ \A i \in Callers :
          /\ WF_vars(TickerFire(i))
          /\ WF_vars(TaskTick(i))
          /\ WF_vars(TaskPurge(i))
          /\ WF_vars(TaskScan(i))

\* The same engine, started once before it is used, with its enabled flag
\* switched off and on while callers set entries, time passes and the purge
\* task runs.
EngineUp == hist.storeStarts > 0

DisabledPurgeNext ==
    \/ \E c \in Callers : ~EngineUp /\ StartEnterSeq(c)
    \/ \E c \in Callers : StartRest(c)
    \/ \E id \in Keys, val \in Values :
          EngineUp /\ StoreSet(id, val) /\ UNCHANGED engineVars
    \/ EngineUp /\ Tick /\ UNCHANGED engineVars
    \/ \E b \in BOOLEAN : EngineUp /\ SetEnabled(b)
    \/ \E i \in Callers : TickerFire(i)
    \/ \E i \in Callers : TaskTick(i)
    \/ \E i \in Callers : TaskPurge(i)
    \/ \E i \in Callers : TaskScan(i)

DisabledPurgeSpec ==
    /\ PurgeLiveInit
    /\ [][DisabledPurgeNext]_vars
    /\ \A i \in Callers :
          /\ WF_vars(TickerFire(i))
          /\ WF_vars(TaskTick(i))
          /\ WF_vars(TaskPurge(i))
          /\ WF_vars(TaskScan(i))

\* ---------------------------- Store methods run by concurrent callers
\* Every method of the MemoryStore runs under s.mu from its first statement
\* to its last, so it is one step.  The FileStore checks pathx.Exists before
\* it takes s.mu (Get, Touch), and its Set truncates the file and writes it
\* in two system calls under s.mu: these are separate steps.  The clock
\* stands still while the callers run, and of the histories only `settled`
\* is kept for the FileStore.

\* (mutant) s.mu may be taken while another caller holds it
LockFree_Ignored(m) == TRUE

\* s.mu.Lock() and s.mu.RLock() go through when no Set holds the lock
LockFree(m) == m = NoCaller

\* (mutant) a file that was truncated and not yet written is reported absent
SeenByExists_NonEmpty(fs, id) == id \in DOMAIN fs /\ fs[id].content # Truncated

\* pathx.Exists(sessFile), as the callers that run beside a Set see it
SeenByExists(fs, id) == FileExists(fs, id)

\* os.OpenFile(sessFile, O_WRONLY|O_CREATE|O_TRUNC, 0600)
FileOpenTrunc(dk, fs, id, t) ==
    IF dk # "dir" THEN [files |-> fs, err |-> ErrDir]
    ELSE [files |-> With(fs, id, [content |-> Truncated, ModTime |-> t]),
          err |-> Nil]

\* file.Write(val)
FileWrite(fs, id, val, t) == With(fs, id, [content |-> val, ModTime |-> t])

InCall(c, op, pc) == calls[c].op = op /\ calls[c].pc = pc

IsIdle(c) == calls[c].pc = "idle"

\* a method of the MemoryStore, called by c
MemoryCall(c) ==
    /\ kind = "memory"
    /\ IsIdle(c)
    /\ \/ \E id \in Keys, val \in Values : StoreSet(id, val)
       \/ \E id \in Keys : StoreGet(id)
       \/ \E id \in Keys : StoreExists(id)
       \/ \E id \in Keys : StoreTouch(id)
    /\ UNCHANGED <<lifeVars, objVars, mu, calls, sess>>

\* FileStore.Set up to os.OpenFile: s.mu.Lock(), then the file is created
\* or truncated
FileSetOpen(c, id, val) ==
    /\ kind = "file"
    /\ IsIdle(c)
    /\ LockFree(mu)
    /\ LET r == FileOpenTrunc(dirKind, files, id, now) IN
       /\ files' = r.files
       /\ IF r.err # Nil
          THEN /\ ret' = Ret("Set", id, val, FALSE, r.err, 0)
               /\ settled' = [settled EXCEPT ![id] = NoValue]
               /\ UNCHANGED <<mu, calls>>
          ELSE /\ mu' = c
               /\ calls' = [calls EXCEPT
                              ![c] = [op |-> "Set", id |-> id, val |-> val,
                                      pc |-> "write"]]
               /\ UNCHANGED <<ret, settled>>
    /\ UNCHANGED <<now, kind, data, dirKind, refreshed, lifeVars, objVars, sess>>

\* FileStore.Set from file.Write to its return, which unlocks s.mu
FileSetWrite(c) ==
    /\ InCall(c, "Set", "write")
    /\ files' = FileWrite(files, calls[c].id, calls[c].val, now)
    /\ mu' = NoCaller
    /\ ret' = Ret("Set", calls[c].id, calls[c].val, FALSE, Nil, 0)
    /\ settled' = [settled EXCEPT ![calls[c].id] = calls[c].val]
    /\ calls' = [calls EXCEPT ![c] = IdleCall]
    /\ UNCHANGED <<now, kind, data, dirKind, refreshed, lifeVars, objVars, sess>>

\* FileStore.Get: the pathx.Exists check, made before s.mu is taken
FileGetCheck(c, id) ==
    /\ kind = "file"
    /\ IsIdle(c)
    /\ IF ~SeenByExists(files, id)
       THEN /\ ret' = Ret("Get", id, NoValue, FALSE, ErrSessionNotFound, 0)
            /\ UNCHANGED calls
       ELSE /\ calls' = [calls EXCEPT
                           ![c] = [op |-> "Get", id |-> id, val |-> NoValue,
                                   pc |-> "read"]]
            /\ UNCHANGED ret
    /\ UNCHANGED <<now, kind, data, dirKind, files, settled, refreshed,
                   mu, lifeVars, objVars, sess>>

\* FileStore.Get: s.mu.Lock(); return os.ReadFile(sessFile)
FileGetRead(c) ==
    /\ InCall(c, "Get", "read")
    /\ LockFree(mu)
    /\ LET r == FileReadFile(files, calls[c].id) IN
       ret' = Ret("Get", calls[c].id, r.val, FALSE, r.err, 0)
    /\ calls' = [calls EXCEPT ![c] = IdleCall]
    /\ UNCHANGED <<now, kind, data, dirKind, files, settled, refreshed,
                   mu, lifeVars, objVars, sess>>

\* FileStore.Exists: pathx.Exists under s.mu.RLock()
FileExistsCall(c, id) ==
    /\ kind = "file"
    /\ IsIdle(c)
    /\ LockFree(mu)
    /\ ret' = Ret("Exists", id, NoValue, SeenByExists(files, id), Nil, 0)
    /\ UNCHANGED <<now, kind, data, dirKind, files, settled, refreshed,
                   mu, calls, lifeVars, objVars, sess>>

\* FileStore.Touch: the pathx.Exists check, made before s.mu is taken
FileTouchCheck(c, id) ==
    /\ kind = "file"
    /\ IsIdle(c)
    /\ IF ~SeenByExists(files, id)
       THEN /\ ret' = Ret("Touch", id, NoValue, FALSE, ErrSessionNotFound, 0)
            /\ UNCHANGED calls
       ELSE /\ calls' = [calls EXCEPT
                           ![c] = [op |-> "Touch", id |-> id, val |-> NoValue,
                                   pc |-> "chtimes"]]
            /\ UNCHANGED ret
    /\ UNCHANGED <<now, kind, data, dirKind, files, settled, refreshed,
                   mu, lifeVars, objVars, sess>>

\* FileStore.Touch: s.mu.Lock(); return os.Chtimes(sessFile, now, now)
FileTouchChtimes(c) ==
    /\ InCall(c, "Touch", "chtimes")
    /\ LockFree(mu)
    /\ LET r == FileChtimes(files, calls[c].id, now) IN
       /\ files' = r.files
       /\ ret' = Ret("Touch", calls[c].id, NoValue, FALSE, r.err, 0)
    /\ calls' = [calls EXCEPT ![c] = IdleCall]
    /\ UNCHANGED <<now, kind, data, dirKind, settled, refreshed, mu, lifeVars, objVars,
                   sess>>

\* a step of a method of the FileStore, called by c
FileCall(c) ==
    \/ \E id \in Keys, val \in Values : FileSetOpen(c, id, val)
    \/ FileSetWrite(c)
    \/ \E id \in Keys : FileGetCheck(c, id)
    \/ FileGetRead(c)
    \/ \E id \in Keys : FileExistsCall(c, id)
    \/ \E id \in Keys : FileTouchCheck(c, id)
    \/ FileTouchChtimes(c)

ConcCall(c) == MemoryCall(c) \/ FileCall(c)

\* a started MemoryStore or FileStore
ConcInit ==
    /\ InitStoreVars
    /\ InitEngineVars
    /\ \/ kind = "memory" /\ dirKind = "missing"
       \/ kind = "file" /\ dirKind = "dir"

\* callers running Set, Get, Exists and Touch at the same time; nobody
\* deletes or purges
ConcNext ==
    \/ \E c \in Callers : MemoryCall(c)
    \/ \E c \in Callers : FileCall(c)

ConcSpec == ConcInit /\ [][ConcNext]_vars

\* FileStore.Delete: the pathx.Exists check, made before s.mu is taken
FileDeleteCheck(c, id) ==
    /\ kind = "file"
    /\ IsIdle(c)
    /\ IF ~SeenByExists(files, id)
       THEN /\ ret' = Ret("Delete", id, NoValue, FALSE, Nil, 0)
            /\ UNCHANGED calls
       ELSE /\ calls' = [calls EXCEPT
                           ![c] = [op |-> "Delete", id |-> id, val |-> NoValue,
                                   pc |-> "remove"]]
            /\ UNCHANGED ret
    /\ UNCHANGED <<now, kind, data, dirKind, files, settled, refreshed,
                   mu, lifeVars, objVars, sess>>

\* FileStore.Delete: s.mu.Lock(); os.Remove(sessFile) and its error
FileDeleteRemove(c) ==
    /\ InCall(c, "Delete", "remove")
    /\ LockFree(mu)
    /\ LET r == FileRemove(files, calls[c].id) IN
       /\ files' = r.files
       /\ ret' = Ret("Delete", calls[c].id, NoValue, FALSE, r.err, 0)
    /\ settled' = [settled EXCEPT ![calls[c].id] = NoValue]
    /\ calls' = [calls EXCEPT ![c] = IdleCall]
    /\ UNCHANGED <<now, kind, data, dirKind, refreshed, mu, lifeVars, objVars, sess>>

\* MemoryStore.Delete, called by c: one step under s.mu
MemoryDeleteCall(c) ==
    /\ kind = "memory"
    /\ IsIdle(c)
    /\ \E id \in Keys : StoreDelete(id)
    /\ UNCHANGED <<lifeVars, objVars, mu, calls, sess>>

\* callers running Set, Get, Exists, Touch and Delete at the same time
ConcDeleteNext ==
    \/ ConcNext
    \/ \E c \in Callers : MemoryDeleteCall(c)
    \/ \E c \in Callers, id \in Keys : FileDeleteCheck(c, id)
    \/ \E c \in Callers : FileDeleteRemove(c)

ConcDeleteSpec == ConcInit /\ [][ConcDeleteNext]_vars

\* ------------------------------------ StoreEngine: session operations
\* Session.Data values, by the Go value they are: the empty map, a map with
\* a string, with an int, with a float64, with a channel
EmptyData == "map[]"
StrData == "map[key:string(val)]"
IntData == "map[key:int(1)]"
FloatData == "map[key:float64(1)]"
ChanData == "map[key:chan]"

\* the Data the callers pass to SaveSession
Datas == {StrData, IntData, FloatData, ChanData}

\* the ids the callers pass: every key, and the empty id
Ids == Keys \cup {EmptyId}

\* JsonEncoder.Encode: json.Marshal.  An int and a float64 of the same value
\* give the same text; a channel cannot be encoded
Encode(d) ==
    CASE d = NoData -> [val |-> "null", err |-> Nil]
      [] d = EmptyData -> [val |-> "{}", err |-> Nil]
      [] d = StrData -> [val |-> "{\"key\":\"val\"}", err |-> Nil]
      [] d \in {IntData, FloatData} -> [val |-> "{\"key\":1}", err |-> Nil]
      [] OTHER -> [val |-> NoValue, err |-> ErrEncode]

\* (mutant) a number is decoded to an int
Decode_ToInt(b) ==
    CASE b = "null" -> [data |-> NoData, err |-> Nil]
      [] b = "{}" -> [data |-> EmptyData, err |-> Nil]
      [] b = "{\"key\":\"val\"}" -> [data |-> StrData, err |-> Nil]
      [] b = "{\"key\":1}" -> [data |-> IntData, err |-> Nil]
      [] OTHER -> [data |-> NoData, err |-> ErrDecode]

\* JsonEncoder.Decode into `var v map[string]any`: json.Unmarshal.  null
\* leaves the nil map, a number is decoded to a float64, text that is not
\* JSON is an error
Decode(b) ==
    CASE b = "null" -> [data |-> NoData, err |-> Nil]
      [] b = "{}" -> [data |-> EmptyData, err |-> Nil]
      [] b = "{\"key\":\"val\"}" -> [data |-> StrData, err |-> Nil]
      [] b = "{\"key\":1}" -> [data |-> FloatData, err |-> Nil]
      [] OTHER -> [data |-> NoData, err |-> ErrDecode]

\* the calls of the Store in use, on the current state
SetOn(id, val) ==
    IF kind = "file"
    THEN [data |-> data] @@ FileSetResult(dirKind, files, id, val, now)
    ELSE [data |-> MemorySetData(data, id, val, now), files |-> files,
          err |-> Nil]

GetOn(id) ==
    IF kind = "file" THEN FileGetResult(files, id)
    ELSE MemoryGetResult(data, id)

ExistsOn(id) ==
    IF kind = "file" THEN FileExists(files, id)
    ELSE MemoryExistsResult(data, id)

TouchOn(id) ==
    IF kind = "file" THEN [data |-> data] @@ FileTouchResult(files, id, now)
    ELSE [files |-> files] @@ MemoryTouchResult(data, id, now)

DeleteOn(id) ==
    IF kind = "file" THEN [data |-> data] @@ FileDeleteResult(files, id)
    ELSE [data |-> MemoryDeleteData(data, id), files |-> files, err |-> Nil]

PurgeOn(maxAge) ==
    IF kind = "file"
    THEN [data |-> data] @@ FilePurgeResult(dirKind, files, maxAge, now)
    ELSE [data |-> MemoryPurgeData(data, maxAge, now), files |-> files,
          err |-> Nil]

\* one entry of the record of the calls an engine operation made
Made(call, err) == [call |-> call, err |-> err]

\* an engine operation that has returned
Returned(op, id, at, log, ok, err, out) ==
    [op |-> op, id |-> id, pc |-> "done", at |-> at,
     bytes |-> NoValue, log |-> log, ok |-> ok, err |-> err, out |-> out]

\* an engine operation that returned err before it made any call
Refused(op, id, err) ==
    Returned(op, id, 0, <<>>, FALSE, err,
             Session(EmptyId, FALSE, NoData, FALSE))

\* no engine operation is running and the result of the last one was taken
SessFree == sess.op = "none"

\* (mutant) the engine works while it is disabled
FailsClosed_Never(en) == FALSE

\* `if !e.properties.Enabled { return ..., errors.New("engine is disabled") }`
FailsClosed(en) == ~en

\* (mutant) GetSession does not create the entry it misses
CreateOn_Skip(id, val) == [data |-> data, files |-> files, err |-> Nil]

\* e.Store.Set(ctx, id, data) of GetSession, for an id that does not exist
CreateOn(id, val) == SetOn(id, val)

\* (mutant) GetSession does not touch
ReadTouchOn_Skip(id) == [data |-> data, files |-> files, err |-> Nil]

\* e.Store.Touch(ctx, id) of GetSession
ReadTouchOn(id) == TouchOn(id)

ZeroSession == Session(EmptyId, FALSE, NoData, FALSE)

\* the last successful Set of each id that is still in the store
Kept(fs, d) ==
    [k \in Keys |-> IF k \in (IF kind = "file" THEN DOMAIN fs ELSE DOMAIN d)
                    THEN settled[k] ELSE NoValue]

\* GetSession: the Enabled check and the id check
GetSessionEnter(id) ==
    /\ SessFree
    /\ sess' = IF FailsClosed(enabled)
               THEN Refused("GetSession", id, ErrDisabled)
               ELSE IF id = EmptyId
               THEN Refused("GetSession", id, ErrEmptyId)
               ELSE [op |-> "GetSession", id |-> id, pc |-> "exists", at |-> now, bytes |-> NoValue,
                     log |-> <<>>, ok |-> FALSE, err |-> Nil,
                     out |-> ZeroSession]
    /\ UNCHANGED <<storeVars, lifeVars, objVars, mu, calls>>

\* ok, err := e.Store.Exists(ctx, id)
GetSessionExists ==
    /\ sess.pc = "exists"
    /\ sess' = [sess EXCEPT
                  !.pc = IF ExistsOn(sess.id) THEN "get" ELSE "create",
                  !.log = Append(@, Made("Exists", Nil))]
    /\ UNCHANGED <<storeVars, lifeVars, objVars, mu, calls>>

\* Encode(map[string]any{}) and e.Store.Set(ctx, id, data), whose error is
\* dropped
GetSessionCreate ==
    /\ sess.pc = "create"
    /\ LET e == Encode(EmptyData)
           r == CreateOn(sess.id, e.val) IN
       IF e.err # Nil
       THEN /\ sess' = Returned("GetSession", sess.id, sess.at,
                                Append(sess.log, Made("Encode", e.err)),
                                FALSE, e.err, ZeroSession)
            /\ UNCHANGED <<data, files, settled>>
       ELSE /\ data' = r.data
            /\ files' = r.files
            /\ settled' = [settled EXCEPT
                             ![sess.id] = IF r.err = Nil THEN e.val
                                          ELSE NoValue]
            /\ sess' = [sess EXCEPT
                          !.pc = "get",
                          !.log = @ \o <<Made("Encode", Nil),
                                         Made("Set", r.err)>>]
    /\ UNCHANGED <<now, kind, dirKind, ret, refreshed, lifeVars, objVars, mu, calls>>

\* data, err := e.Store.Get(ctx, id)
GetSessionGet ==
    /\ sess.pc = "get"
    /\ LET r == GetOn(sess.id) IN
       sess' = IF r.err # Nil
               THEN Returned("GetSession", sess.id, sess.at,
                             Append(sess.log, Made("Get", r.err)),
                             FALSE, r.err, ZeroSession)
               ELSE [sess EXCEPT !.pc = "touch", !.bytes = r.val,
                                 !.log = Append(@, Made("Get", Nil))]
    /\ UNCHANGED <<storeVars, lifeVars, objVars, mu, calls>>

\* err = e.Store.Touch(ctx, id); Decode(data, &v); return Session{...}
GetSessionTouch ==
    /\ sess.pc = "touch"
    /\ LET r == ReadTouchOn(sess.id)
           d == Decode(sess.bytes)
           touched == Append(sess.log, Made("Touch", r.err)) IN
       /\ data' = r.data
       /\ files' = r.files
       /\ sess' = IF r.err # Nil
                  THEN Returned("GetSession", sess.id, sess.at,
                                touched, FALSE, r.err, ZeroSession)
                  ELSE IF d.err # Nil
                  THEN Returned("GetSession", sess.id, sess.at,
                                Append(touched, Made("Decode", d.err)),
                                FALSE, d.err, ZeroSession)
                  ELSE Returned("GetSession", sess.id, sess.at,
                                Append(touched, Made("Decode", Nil)),
                                FALSE, Nil,
                                Session(sess.id, FALSE, d.data, FALSE))
    /\ UNCHANGED <<now, kind, dirKind, ret, settled, refreshed, lifeVars, objVars,
                   mu, calls>>

GetSessionStep ==
    \/ GetSessionExists
    \/ GetSessionCreate
    \/ GetSessionGet
    \/ GetSessionTouch

\* StoreEngine.SaveSession: the checks, Encode(session.Data), Store.Set
SaveSession(id, d) ==
    /\ SessFree
    /\ LET e == Encode(d)
           r == SetOn(id, e.val) IN
       IF FailsClosed(enabled) \/ id = EmptyId \/ e.err # Nil
       THEN /\ sess' = IF FailsClosed(enabled)
                       THEN Refused("SaveSession", id, ErrDisabled)
                       ELSE IF id = EmptyId
                       THEN Refused("SaveSession", id, ErrEmptyId)
                       ELSE Returned("SaveSession", id, 0,
                                     <<Made("Encode", e.err)>>, FALSE, e.err,
                                     ZeroSession)
            /\ UNCHANGED <<data, files, settled>>
       ELSE /\ data' = r.data
            /\ files' = r.files
            /\ settled' = [settled EXCEPT
                             ![id] = IF r.err = Nil THEN e.val ELSE NoValue]
            /\ sess' = Returned("SaveSession", id, 0,
                                <<Made("Encode", Nil), Made("Set", r.err)>>,
                                FALSE, r.err, ZeroSession)
    /\ UNCHANGED <<now, kind, dirKind, ret, refreshed, lifeVars, objVars, mu, calls>>

\* StoreEngine.SessionExists: the Enabled check, then Store.Exists
SessionExists(id) ==
    /\ SessFree
    /\ sess' = IF FailsClosed(enabled)
               THEN Refused("SessionExists", id, ErrDisabled)
               ELSE Returned("SessionExists", id, 0,
                             <<Made("Exists", Nil)>>, ExistsOn(id), Nil,
                             ZeroSession)
    /\ UNCHANGED <<storeVars, lifeVars, objVars, mu, calls>>

\* StoreEngine.Purge, called directly: the Enabled check, then
\* Store.Purge(ctx, AgeLimit)
EnginePurge ==
    /\ SessFree
    /\ LET r == PurgeOn(AgeLimit) IN
       IF FailsClosed(enabled)
       THEN /\ sess' = Refused("Purge", EmptyId, ErrDisabled)
            /\ UNCHANGED <<data, files, settled>>
       ELSE /\ data' = r.data
            /\ files' = r.files
            /\ settled' = Kept(r.files, r.data)
            /\ sess' = Returned("Purge", EmptyId, 0,
                                <<Made("Purge", r.err)>>, FALSE, r.err,
                                ZeroSession)
    /\ UNCHANGED <<now, kind, dirKind, ret, refreshed, lifeVars, objVars, mu, calls>>

\* the caller takes what the engine operation returned
SessionTake ==
    /\ sess.pc = "done"
    /\ ~SessFree
    /\ sess' = NoSess
    /\ UNCHANGED <<storeVars, lifeVars, objVars, mu, calls>>

\* another user of the Store deletes an entry
RawDelete(id) ==
    /\ LET r == DeleteOn(id) IN
       /\ data' = r.data
       /\ files' = r.files
       /\ settled' = Kept(r.files, r.data)
    /\ UNCHANGED <<now, kind, dirKind, ret, refreshed, lifeVars, opVars>>

\* another user of the Store sets an entry to bytes that are no JSON text
RawSet(id) ==
    /\ LET r == SetOn(id, "bar") IN
       /\ data' = r.data
       /\ files' = r.files
       /\ settled' = [settled EXCEPT
                        ![id] = IF r.err = Nil THEN "bar" ELSE NoValue]
    /\ UNCHANGED <<now, kind, dirKind, ret, refreshed, lifeVars, opVars>>

\* the purge of the periodic task, beside the callers of the engine
TaskPurgeOn ==
    /\ ~FailsClosed(enabled)
    /\ LET r == PurgeOn(AgeLimit) IN
       /\ data' = r.data
       /\ files' = r.files
       /\ settled' = Kept(r.files, r.data)
    /\ UNCHANGED <<now, kind, dirKind, ret, refreshed, lifeVars, opVars>>

\* an engine over a MemoryStore or a FileStore; the store was started, or
\* was not and the directory of the FileStore is missing
SessionInit ==
    /\ InitStoreVars
    /\ InitEngineVars
    /\ \/ kind = "memory" /\ dirKind = "missing"
       \/ kind = "file" /\ dirKind \in {"missing", "dir"}

\* the operations a caller of the engine runs, from call to return
SessionCalls ==
    \/ \E id \in Ids : GetSessionEnter(id)
    \/ GetSessionStep
    \/ \E id \in Ids, d \in Datas : SaveSession(id, d)
    \/ \E id \in Ids : SessionExists(id)
    \/ EnginePurge
    \/ SessionTake
    \/ SessFree /\ \E b \in BOOLEAN : SetEnabled(b)
    \/ SessFree /\ Tick /\ UNCHANGED engineVars

\* engine operations called one after another, nothing else running beside
\* a GetSession
SessionNext ==
    \/ SessionCalls
    \/ SessFree /\ \E id \in Keys : RawDelete(id)
    \/ SessFree /\ \E id \in Keys : RawSet(id)

SessionSpec == SessionInit /\ [][SessionNext]_vars

\* a GetSession with a Delete or the purge of the task running beside it
SessionConcNext ==
    \/ SessionCalls
    \/ \E id \in Keys : RawDelete(id)
    \/ TaskPurgeOn

SessionConcSpec == SessionInit /\ [][SessionConcNext]_vars

\* ------------------------------------------------ Session: its methods
\* the keys and values the handlers use in Session.Data
DataKeys == {"key", "user"}

Maps == UNION {[d -> Values] : d \in SUBSET DataKeys}

\* Session.Ctx: nil (a Session built by a literal), a context that carries
\* no engine, a context that carries the engine (as the middleware passes)
Contexts == {"nil", "background", "engine"}

\* (mutant) a Clear that does not mark the Session changed
Cleared_Unmarked(s) == [s EXCEPT !.Data = EmptyMap, !.DataNil = FALSE]

\* s.Data = map[string]any{}; s.Changed = true
Cleared(s) == [s EXCEPT !.Data = EmptyMap, !.DataNil = FALSE, !.Changed = TRUE]

\* (mutant) an `if s.Destroyed` that is never taken
IsDestroyed_Never(s) == FALSE

\* if s.Destroyed { return ..., sessionDestroyedError }
IsDestroyed(s) == s.Destroyed

ObjFrame == UNCHANGED <<storeVars, lifeVars, mu, calls, sess, request, chain, server>>

\* func (s *Session) Clear(): it has no Destroyed check and no result
SessionClear ==
    /\ session' = Cleared(session)
    /\ result' = MethodResult("Clear", "", NoValue, FALSE, Nil, FALSE, <<>>)
    /\ ObjFrame

\* func (s *Session) Delete(key string) error
SessionDelete(key) ==
    /\ IF IsDestroyed(session)
       THEN /\ result' = MethodResult("Delete", key, NoValue, FALSE,
                                      ErrDestroyed, FALSE, <<>>)
            /\ UNCHANGED session
       ELSE /\ session' = [session EXCEPT !.Data = Without(@, key),
                                          !.Changed = TRUE]
            /\ result' = MethodResult("Delete", key, NoValue, FALSE, Nil,
                                      FALSE, <<>>)
    /\ ObjFrame

\* func (s *Session) Get(key string) (any, error)
SessionGet(key) ==
    /\ result' = IF IsDestroyed(session)
                 THEN MethodResult("Get", key, NoValue, FALSE, ErrDestroyed,
                                   FALSE, <<>>)
                 ELSE IF key \in DOMAIN session.Data
                 THEN MethodResult("Get", key, session.Data[key], FALSE, Nil,
                                   FALSE, <<>>)
                 ELSE MethodResult("Get", key, NoValue, FALSE, Nil, FALSE, <<>>)
    /\ UNCHANGED session
    /\ ObjFrame

\* func (s *Session) Has(key string) (bool, error)
SessionHas(key) ==
    /\ result' = IF IsDestroyed(session)
                 THEN MethodResult("Has", key, NoValue, FALSE, ErrDestroyed,
                                   FALSE, <<>>)
                 ELSE MethodResult("Has", key, NoValue,
                                   key \in DOMAIN session.Data, Nil, FALSE, <<>>)
    /\ UNCHANGED session
    /\ ObjFrame

\* func (s *Session) Set(key string, value any) error: the assignment to an
\* entry of a nil map panics
SessionSet(key, val) ==
    /\ IF IsDestroyed(session)
       THEN /\ result' = MethodResult("Set", key, val, FALSE, ErrDestroyed,
                                      FALSE, <<>>)
            /\ UNCHANGED session
       ELSE IF session.DataNil
       THEN /\ result' = MethodResult("Set", key, val, FALSE, Nil, TRUE, <<>>)
            /\ UNCHANGED session
       ELSE /\ session' = [session EXCEPT !.Data = With(@, key, val),
                                          !.Changed = TRUE]
            /\ result' = MethodResult("Set", key, val, FALSE, Nil, FALSE, <<>>)
    /\ ObjFrame

\* func (s *Session) Destroy() error: Clear, Destroyed = true, then the
\* engine is taken from s.Ctx (a nil Ctx panics, a context without engine
\* is an error) and e.Store(s.Id, s.Data) writes the emptied data, its
\* error dropped
SessionDestroy ==
    /\ session' = [Cleared(session) EXCEPT !.Destroyed = TRUE]
    /\ CASE session.Ctx = "nil" ->
              /\ result' = MethodResult("Destroy", "", NoValue, FALSE, Nil,
                                        TRUE, <<>>)
              /\ UNCHANGED <<data, files, settled>>
         [] session.Ctx = "background" ->
              /\ result' = MethodResult("Destroy", "", NoValue, FALSE,
                                        ErrNoEngine, FALSE, <<>>)
              /\ UNCHANGED <<data, files, settled>>
         [] OTHER ->
              LET e == Encode(EmptyData)
                  r == SetOn(session.Id, e.val) IN
              /\ data' = r.data
              /\ files' = r.files
              /\ settled' = [settled EXCEPT
                               ![session.Id] = IF r.err = Nil THEN e.val
                                               ELSE NoValue]
              /\ result' = MethodResult("Destroy", "", NoValue, FALSE, Nil,
                                        FALSE,
                                        <<[id |-> session.Id, bytes |-> e.val,
                                           err |-> r.err]>>)
    /\ UNCHANGED <<now, kind, dirKind, ret, refreshed, lifeVars, mu, calls,
                   sess, request, chain, server>>

\* a handler holds a Session that GetSession returned (Ctx is the context
\* of the call) or that a literal built (Ctx is nil): not changed, not
\* destroyed, its Data a map or nil
ObjInit ==
    /\ InitStoreVars
    /\ InitEngineFields
    /\ \/ kind = "memory" /\ dirKind = "missing"
       \/ kind = "file" /\ dirKind \in {"missing", "dir"}
    /\ \E id \in Keys, ctx \in Contexts, m \in Maps, isNil \in BOOLEAN :
          /\ isNil => m = EmptyMap
          /\ session = SessionValue(id, FALSE, ctx, isNil, m, FALSE)
    /\ result = NoResult

ObjNext ==
    \/ SessionClear
    \/ \E key \in DataKeys : SessionDelete(key)
    \/ SessionDestroy
    \/ \E key \in DataKeys : SessionGet(key)
    \/ \E key \in DataKeys : SessionHas(key)
    \/ \E key \in DataKeys, val \in Values : SessionSet(key, val)

ObjSpec == ObjInit /\ [][ObjNext]_vars

\* ----------------------------------------------- middleware.Sessioned
\* The middleware works on a session.Engine, which the FileEngine
\* implements over the *.sess files of its directory.
\* fileExists(sessFile)
EngineFileExists(dk, fs, id) == dk = "dir" /\ FileExists(fs, id)

\* FileEngine.Store: the file is created or truncated, then the encoded
\* value is written; the error of Encode is overwritten by the one of
\* Write, and a value that cannot be encoded leaves the file empty
FileEngineStore(dk, fs, id, d, t) ==
    IF dk # "dir" THEN [files |-> fs, err |-> ErrDir]
    ELSE LET e == Encode(d) IN
         [files |-> With(fs, id, [content |-> IF e.err = Nil THEN e.val
                                               ELSE Truncated,
                                  ModTime |-> t]),
          err |-> Nil]

\* FileEngine.Read: os.Open, one file.Read (io.EOF on an empty file), Decode
FileEngineRead(dk, fs, id) ==
    CASE ~EngineFileExists(dk, fs, id) -> [data |-> NoData, err |-> ErrStat]
      [] fs[id].content = Truncated -> [data |-> NoData, err |-> ErrEOF]
      [] OTHER -> Decode(fs[id].content)

\* FileEngine.GetSession
FileEngineGetSession(en, dk, fs, id, t) ==
    IF en /\ id # EmptyId
    THEN LET st == IF EngineFileExists(dk, fs, id)
                   THEN [files |-> fs, err |-> Nil]
                   ELSE FileEngineStore(dk, fs, id, EmptyData, t)
             rd == FileEngineRead(dk, st.files, id) IN
         CASE st.err # Nil ->
                [files |-> st.files, err |-> st.err,
                 s |-> [Id |-> EmptyId, Data |-> NoData]]
           [] rd.err # Nil ->
                [files |-> st.files, err |-> rd.err,
                 s |-> [Id |-> EmptyId, Data |-> NoData]]
           [] OTHER ->
                [files |-> st.files, err |-> Nil,
                 s |-> [Id |-> id, Data |-> rd.data]]
    ELSE [files |-> fs, err |-> Nil, s |-> [Id |-> EmptyId, Data |-> NoData]]

\* FileEngine.StoreSession
FileEngineStoreSession(en, dk, fs, id, d, t) ==
    IF en /\ id # EmptyId THEN FileEngineStore(dk, fs, id, d, t)
    ELSE [files |-> fs, err |-> Nil]

\* (mutant) every cookie sent by the client is replaced
NeedsNewId_Always(fromServer, nok) == ~fromServer

\* `if !fromServer && nok { ... cookie = newCookie(e.Name(), e.NewId(), ...) }`
NeedsNewId(fromServer, nok) == ~fromServer /\ nok

\* what a request brings: no cookie of the engine's name, or one whose
\* value is any id or empty
Cookies ==
    {[present |-> FALSE, value |-> EmptyId]} \cup
    {[present |-> TRUE, value |-> id] : id \in Ids}

MwFrame ==
    UNCHANGED <<now, kind, data, dirKind, ret, refreshed, lifeVars, mu, calls,
                sess, session, result, chain, server>>

\* no request is inside the middleware
MwFree == request.pc \in {"idle", "done"}

\* a request reaches the handler Sessioned(e)(next)
MwRequest(cookie) ==
    /\ MwFree
    /\ request' = [NoRequest EXCEPT !.cookie = cookie, !.pc = "cookie"]
    /\ UNCHANGED <<files, settled>>
    /\ MwFrame

\* r.Cookie(e.Name()): without the cookie a new one is made with e.NewId(),
\* a random string no session has, and set on the response
MwCookie(nid) ==
    /\ request.pc = "cookie"
    /\ ~EngineFileExists(dirKind, files, nid)
    /\ request' = IF request.cookie.present
                  THEN [request EXCEPT !.id = request.cookie.value,
                                       !.pc = "exists"]
                  ELSE [request EXCEPT !.fromServer = TRUE, !.id = nid,
                                       !.newIds = @ + 1,
                                       !.log = Append(@, "SetCookie"),
                                       !.pc = "exists"]
    /\ UNCHANGED <<files, settled>>
    /\ MwFrame

\* nok, err := e.SessionNotExists(cookie.Value), and the second new cookie
MwNotExists(nid) ==
    /\ request.pc = "exists"
    /\ ~EngineFileExists(dirKind, files, nid)
    /\ LET nok == ~EngineFileExists(dirKind, files, request.id) IN
       request' = IF NeedsNewId(request.fromServer, nok)
                  THEN [request EXCEPT !.fromServer = TRUE, !.id = nid,
                                       !.newIds = @ + 1,
                                       !.log = Append(@, "SetCookie"),
                                       !.pc = "get"]
                  ELSE [request EXCEPT !.pc = "get"]
    /\ UNCHANGED <<files, settled>>
    /\ MwFrame

\* s, err := e.GetSession(cookie.Value, ctxEngine); on an error the answer
\* is 500 and the middleware returns
MwGetSession ==
    /\ request.pc = "get"
    /\ LET r == FileEngineGetSession(enabled, dirKind, files, request.id, now) IN
       /\ files' = r.files
       /\ settled' = Kept(r.files, data)
       /\ request' = IF r.err # Nil
                     THEN [request EXCEPT !.log = @ \o <<"GetSession", "500">>,
                                          !.status = "500", !.pc = "done"]
                     ELSE [request EXCEPT !.log = Append(@, "GetSession"),
                                          !.s = r.s, !.pc = "next"]
    /\ MwFrame

\* next.ServeHTTP(w, req): the handler holds &s and leaves its Data as it
\* is or, when it is a map, sets it to d
MwNext(d) ==
    /\ request.pc = "next"
    /\ d = request.s.Data \/ request.s.Data # NoData
    /\ request' = [request EXCEPT !.log = Append(@, "next"), !.s.Data = d,
                                  !.status = "handled", !.pc = "store"]
    /\ UNCHANGED <<files, settled>>
    /\ MwFrame

\* e.StoreSession(s.Id, s), its error dropped
MwStore ==
    /\ request.pc = "store"
    /\ LET r == FileEngineStoreSession(enabled, dirKind, files, request.s.Id,
                                       request.s.Data, now) IN
       /\ files' = r.files
       /\ settled' = Kept(r.files, data)
    /\ request' = [request EXCEPT !.log = Append(@, "StoreSession"),
                                  !.pc = "done"]
    /\ MwFrame

\* a FileEngine whose directory exists or is missing
MwInit ==
    /\ InitStoreVars
    /\ InitEngineVars
    /\ kind = "file" /\ dirKind \in {"missing", "dir"}

SessionedNext ==
    \/ \E cookie \in Cookies : MwRequest(cookie)
    \/ \E nid \in Keys : MwCookie(nid)
    \/ \E nid \in Keys : MwNotExists(nid)
    \/ MwGetSession
    \/ \E d \in Datas \cup {EmptyData, NoData} : MwNext(d)
    \/ MwStore
    \/ MwFree /\ \E b \in BOOLEAN : SetEnabled(b)
    \/ MwFree /\ \E id \in Keys : RawDelete(id)

MwSpec == MwInit /\ [][SessionedNext]_vars

\* ----------------------------------------------------- GracefulServer
ServerFrame ==
    UNCHANGED <<storeVars, lifeVars, mu, calls, sess, session, result,
                request, chain>>

\* the process runs and the server was built
ServerUp == server.built /\ ~server.exited

\* l.Fatalf(...): the StandardLogger ends the process, another Logger may
\* return
Fatal(srv) == [srv EXCEPT !.exited = srv.fatalExits]

\* (mutant) a select without the ctx.Done() case
SelectReady_SignalOnly(sig, cancelled) == sig

\* the select of the shutdown goroutine: `case sig := <-s.sigChan`,
\* `case <-ctx.Done()`
SelectReady(sig, cancelled) == sig \/ cancelled

\* NewGracefulServer(...), WithCancelFunc or not, with some Logger
ServerNew(hasCancelFunc, fatalExits) ==
    /\ ~server.built
    /\ server' = [server EXCEPT !.built = TRUE,
                                !.hasCancelFunc = hasCancelFunc,
                                !.fatalExits = fatalExits]
    /\ ServerFrame

\* Run: `go func() { err := s.ListenAndServe() ... }()`
RunServe ==
    /\ ServerUp
    /\ server.run = "idle"
    /\ server' = [server EXCEPT !.listen = "serving", !.run = "notify"]
    /\ ServerFrame

\* ListenAndServe returns an error that is not ErrServerClosed: Fatalf
ListenFail ==
    /\ ServerUp
    /\ server.listen = "serving"
    /\ server' = Fatal([server EXCEPT !.listen = "failed"])
    /\ ServerFrame

\* Run: s.sigChan = newSignalChan(sig...)
RunNotify ==
    /\ ServerUp
    /\ server.run = "notify"
    /\ server' = [server EXCEPT !.notified = TRUE, !.run = "setcancel"]
    /\ ServerFrame

\* Run: ctx, cancel := context.WithCancel(s.Context); s.cancel = cancel
RunSetCancel ==
    /\ ServerUp
    /\ server.run = "setcancel"
    /\ server' = [server EXCEPT !.cancelSet = TRUE, !.run = "launch"]
    /\ ServerFrame

\* Run: the shutdown goroutine is launched, Run waits on done
RunLaunch ==
    /\ ServerUp
    /\ server.run = "launch"
    /\ server' = [server EXCEPT !.waiter = "select", !.run = "wait"]
    /\ ServerFrame

\* Run: <-done
RunReturn ==
    /\ ServerUp
    /\ server.run = "wait"
    /\ server.done
    /\ server' = [server EXCEPT !.run = "returned"]
    /\ ServerFrame

\* the process receives a signal Notify relays: it is put in s.sigChan,
\* which holds one signal
Signal ==
    /\ ServerUp
    /\ server.notified
    /\ ~server.sig
    /\ server' = [server EXCEPT !.sig = TRUE]
    /\ ServerFrame

\* func (s *GracefulServer) TriggerShutdown() error
TriggerShutdown ==
    /\ ServerUp
    /\ server' = IF ~server.cancelSet
                 THEN [server EXCEPT !.lastTrigger = "error"]
                 ELSE [server EXCEPT !.ctxDone = TRUE, !.lastTrigger = "nil"]
    /\ ServerFrame

\* the shutdown goroutine leaves its select by a ready case
WaiterSelect(bySignal) ==
    /\ ServerUp
    /\ server.waiter = "select"
    /\ SelectReady(server.sig, server.ctxDone)
    /\ IF bySignal THEN server.sig ELSE server.ctxDone
    /\ server' = [server EXCEPT
                     !.sig = IF bySignal THEN FALSE ELSE @,
                     !.waiter = IF server.hasCancelFunc THEN "cancelfunc"
                                ELSE "shutdown"]
    /\ ServerFrame

\* `if err := s.CancelFunc(ctx); err != nil { l.Fatalf(...) }`
WaiterCancelFunc(failed) ==
    /\ ServerUp
    /\ server.waiter = "cancelfunc"
    /\ LET called == [server EXCEPT !.log = Append(@, "CancelFunc"),
                                    !.waiter = "shutdown"] IN
       server' = IF failed THEN Fatal(called) ELSE called
    /\ ServerFrame

\* `if err := s.Server.Shutdown(ctx); err != nil { l.Fatalf(...) }`:
\* Shutdown closes the listeners, so ListenAndServe returns ErrServerClosed
WaiterShutdown(failed) ==
    /\ ServerUp
    /\ server.waiter = "shutdown"
    /\ LET called == [server EXCEPT
                         !.log = Append(@, "Shutdown"),
                         !.listen = IF @ = "serving" THEN "closed" ELSE @,
                         !.waiter = "defer"] IN
       server' = IF failed THEN Fatal(called) ELSE called
    /\ ServerFrame

\* the deferred function: signal.Stop(s.sigChan); cancel(); close(done)
WaiterDefer ==
    /\ ServerUp
    /\ server.waiter = "defer"
    /\ server' = [server EXCEPT !.notified = FALSE, !.done = TRUE,
                                !.waiter = "done"]
    /\ ServerFrame

ServerInit ==
    /\ InitStoreVars
    /\ InitEngineVars
    /\ kind = "memory" /\ dirKind = "missing"

ServerNext ==
    \/ \E hasCancelFunc \in BOOLEAN, fatalExits \in BOOLEAN :
          ServerNew(hasCancelFunc, fatalExits)
    \/ RunServe
    \/ ListenFail
    \/ RunNotify
    \/ RunSetCancel
    \/ RunLaunch
    \/ RunReturn
    \/ Signal
    \/ TriggerShutdown
    \/ \E bySignal \in BOOLEAN : WaiterSelect(bySignal)
    \/ \E failed \in BOOLEAN : WaiterCancelFunc(failed)
    \/ \E failed \in BOOLEAN : WaiterShutdown(failed)
    \/ WaiterDefer

\* the scheduler runs a goroutine that can take a step, and the CancelFunc
\* and Server.Shutdown return
ServerFairness ==
    /\ WF_vars(RunNotify) /\ WF_vars(RunSetCancel) /\ WF_vars(RunLaunch)
    /\ WF_vars(RunReturn)
    /\ WF_vars(\E bySignal \in BOOLEAN : WaiterSelect(bySignal))
    /\ WF_vars(\E failed \in BOOLEAN : WaiterCancelFunc(failed))
    /\ WF_vars(\E failed \in BOOLEAN : WaiterShutdown(failed))
    /\ WF_vars(WaiterDefer)

ServerSpec == ServerInit /\ [][ServerNext]_vars /\ ServerFairness

\* --------------------------------------------------- middleware.Chain
\* the longest list of middlewares passed to Chain
MaxChain == 3

\* the middlewares of the program, and its final handler
Mws == {"m1", "m2", "m3"}
FinalHandler == <<"h">>

\* every list of at most n middlewares
RECURSIVE MwLists(_)
MwLists(n) ==
    IF n = 0 THEN {<<>>}
    ELSE MwLists(n - 1) \cup
         {Append(l, m) : l \in {k \in MwLists(n - 1) : Len(k) = n - 1}, m \in Mws}

\* m(next): a handler that runs m and, when m calls it, next.  A handler is
\* written as the list of what it runs, outermost first.
Wrap(m, next) == <<m>> \o next

RECURSIVE ChainLoop(_, _, _)
\* `for i := len(ms) - 1; i >= 0; i-- { m := ms[i]; next = m(next) }`
ChainLoop(next, ms, i) ==
    IF i >= 1 THEN ChainLoop(Wrap(ms[i], next), ms, i - 1) ELSE next

RECURSIVE ChainUp(_, _, _)
ChainUp(next, ms, i) ==
    IF i <= Len(ms) THEN ChainUp(Wrap(ms[i], next), ms, i + 1) ELSE next

\* (mutant) a Chain that wraps from the first middleware to the last
Chain_Forward(next, ms) == ChainUp(next, ms, 1)

\* func Chain(next http.Handler, ms ...Middleware) http.Handler
Chain(next, ms) == ChainLoop(next, ms, Len(ms))

ChainFrame ==
    UNCHANGED <<storeVars, lifeVars, mu, calls, sess, session, result,
                request, server>>

\* the program builds its handler: Chain(h, ms...)
ChainBuild(ms) ==
    /\ chain.pc = "new"
    /\ chain' = [chain EXCEPT !.ms = ms, !.handler = Chain(FinalHandler, ms),
                              !.pc = "idle"]
    /\ ChainFrame

\* the server calls ServeHTTP of the built handler with a request
ChainServe ==
    /\ chain.pc = "idle"
    /\ chain' = [chain EXCEPT !.todo = chain.handler, !.ran = <<>>,
                              !.blocked = FALSE, !.pc = "serving"]
    /\ ChainFrame

\* the outermost handler not yet run runs: the final handler ends the
\* request; a middleware calls next.ServeHTTP or returns without it
ChainStep(callsNext) ==
    /\ chain.pc = "serving"
    /\ LET m == Head(chain.todo)
           goesOn == m \in Mws /\ callsNext IN
       chain' = [chain EXCEPT !.ran = Append(@, m),
                              !.todo = IF goesOn THEN Tail(@) ELSE <<>>,
                              !.blocked = m \in Mws /\ ~callsNext,
                              !.pc = IF goesOn THEN "serving" ELSE "idle"]
    /\ ChainFrame

ChainInit ==
    /\ InitStoreVars
    /\ InitEngineVars
    /\ kind = "memory" /\ dirKind = "missing"

ChainNext ==
    \/ \E ms \in MwLists(MaxChain) : ChainBuild(ms)
    \/ ChainServe
    \/ \E callsNext \in BOOLEAN : ChainStep(callsNext)

ChainSpec == ChainInit /\ [][ChainNext]_vars

\* ------------------------------------------------------------ claims
\* C1: a successful Set(k, v) followed by Get(k), with no Set, Delete or
\* Purge of k in between, returns exactly v and no error (MemoryStore and
\* FileStore).
C1_RoundTrip ==
    (ret.op = "Get" /\ settled[ret.key] # NoValue)
        => (ret.err = Nil /\ ret.val = settled[ret.key])

C1_Witness ==
    /\ kind = "file"
    /\ ret.op = "Get"
    /\ settled[ret.key] = "val"
    /\ ret.val = "val"
    /\ \E j \in Keys : j # ret.key /\ settled[j] = "bar"

\* C2: a key whose last successful Set or Touch is more than maxAge ago is
\* gone after a successful Purge(maxAge); a key whose Touch succeeded no
\* more than maxAge before the Purge is still there after it.
C2_IdlePurgedTouchedKept ==
    [][\A m \in Times :
        (ret'.op = "Purge" /\ ret'.arg = m /\ ret'.err = Nil /\ StorePurge(m)) =>
            \A k \in Keys :
                /\ (refreshed[k].at # NoTime /\ now - refreshed[k].at > m)
                       => ~Present(k)'
                /\ (refreshed[k].by = "Touch" /\ now - refreshed[k].at <= m)
                       => Present(k)']_vars

C2_Witness ==
    /\ ret.op = "Purge" /\ ret.err = Nil /\ ret.arg = AgeLimit
    /\ now > ret.arg
    /\ \E k \in Keys : refreshed[k].by = "Purge" /\ ~Present(k)
    /\ \E j \in Keys :
          /\ refreshed[j].by = "Touch" /\ refreshed[j].at > 0
          /\ now - refreshed[j].at <= ret.arg
          /\ Present(j)

\* C3: a successful Purge(maxAge) at time now removes exactly the entries
\* with now - lastTouched > maxAge: an entry of age <= maxAge (also age =
\* maxAge) is still present with the same value and timestamp, every other
\* key is absent afterwards.
C3_PurgeExact ==
    [][\A m \in Times :
        (ret'.op = "Purge" /\ ret'.arg = m /\ ret'.err = Nil /\ StorePurge(m)) =>
            \A k \in Keys :
                IF Present(k) /\ now - Entries[k].LastTouched <= m
                THEN Present(k)' /\ Entries'[k] = Entries[k]
                ELSE ~Present(k)']_vars

C3_Witness ==
    /\ ret.op = "Purge" /\ ret.err = Nil
    /\ \E k \in Keys :
          /\ Present(k) /\ now - Entries[k].LastTouched = ret.arg
          /\ ret.arg > 0
    /\ \E j \in Keys : refreshed[j].by = "Purge" /\ ~Present(j)

\* C4: with Start and Stop calls issued one after another, no Start after
\* the first gets past the started check: it returns the already-started
\* error, calls Store.Start not at all and launches no task, also after a
\* Stop; so at most one Start succeeds and at most one task is launched.
C4_OnlyFirstStart ==
    [][/\ hist'.okStarts <= 1 /\ hist'.storeStarts <= 1 /\ Len(tasks') <= 1
       /\ \A c \in Callers :
            (hist.entered /\ StartEnterSeq(c)) =>
                /\ ret'.op = "Start" /\ ret'.err = ErrAlreadyStarted
                /\ UNCHANGED <<startPc, started, purgeDone, tasks, dirKind>>
                /\ hist'.storeStarts = hist.storeStarts]_vars

C4_Witness ==
    /\ ret.op = "Start" /\ ret.err = ErrAlreadyStarted
    /\ hist.stopped
    /\ hist.okStarts = 1
    /\ Len(tasks) = 1

\* C5: under any interleaving of concurrent Start calls at most one call
\* succeeds and at most one purge task is ever launched.
C5_OneStartWins == hist.okStarts <= 1 /\ Len(tasks) <= 1

AllTasksDone == \A i \in DOMAIN tasks : tasks[i].pc = "done"

\* C6: once Stop was called on a started engine that launched its purge
\* task, the task eventually terminates (also when the context is never
\* cancelled).
C6_StopEndsTask == (hist.stopped /\ tasks # <<>>) ~> AllTasksDone

\* C7: once the context passed to Start is cancelled, the purge task
\* launched by that Start eventually terminates, whether or not Stop was
\* called.
C7_CancelEndsTask ==
    \A i \in Callers :
        (i \in DOMAIN tasks /\ ctxDone[tasks[i].ctx]) ~> TaskAt(i, "done")

C7_Witness ==
    /\ TaskAt(1, "done")
    /\ ctxDone[tasks[1].ctx]
    /\ ~hist.stopped
    /\ hist.timerPurged

\* C8: a purge of the periodic task, failed or not, never ends the task:
\* from its purge the task goes back to its select with a new ticker, and
\* it ends only from the select, on the stop signal or the cancellation.
C8_FailedPurgeKeepsTask ==
    [][\A i \in DOMAIN tasks :
        /\ (tasks[i].pc \in {"purge", "scan"} /\ tasks'[i].pc # tasks[i].pc)
              => \/ tasks[i].pc = "purge" /\ tasks'[i].pc = "scan"
                 \/ tasks'[i].pc = "select" /\ ~tasks'[i].tick
        /\ (tasks[i].pc # "done" /\ tasks'[i].pc = "done")
              => /\ tasks[i].pc = "select"
                 /\ purgeDone = "closed" \/ ctxDone[tasks[i].ctx]]_vars

\* a purge failed, and the task is purging again
C8_Witness ==
    /\ hist.purgeFailed
    /\ Len(tasks) = 1
    /\ TaskAt(1, "purge")
    /\ enabled
    /\ kind = "memory"

\* an entry of the store in use that Engine.Purge is due to remove
IsExpired(k) == Present(k) /\ now - Entries[k].LastTouched > AgeLimit

\* C9: with the purge task running, the engine enabled and never stopped
\* nor cancelled, an entry that has been idle for more than ageLimit does
\* not stay so for ever: it is eventually removed by the task (or set or
\* touched again).
C9_IdleEntryRemoved ==
    \A k \in Keys : (tasks # <<>> /\ IsExpired(k)) ~> ~IsExpired(k)

\* C10: a purge task exists only for a started engine whose store requires
\* purge, it exists once a Start got to Store.Start on such a store, and an
\* engine over a store with RequiresPurge() = false launches no task and no
\* task ever calls its Store.Purge.
C10_TaskIffRequiresPurge ==
    /\ tasks # <<>> => (started /\ RequiresPurge(kind))
    /\ (hist.storeStarts > 0 /\ RequiresPurge(kind)) => tasks # <<>>
    /\ ~RequiresPurge(kind) => (tasks = <<>> /\ ~hist.timerPurged)

C10_Witness ==
    /\ kind = "native"
    /\ hist.okStarts >= 1
    /\ started
    /\ tasks = <<>>

\* what a Get of id returns when it runs alone now
StoredValue(id) ==
    IF kind = "file" THEN FileGetResult(files, id)
    ELSE MemoryGetResult(data, id)

AllIdle == \A c \in Callers : IsIdle(c)

\* C11: with Set calls running at the same time on the same key, a Get that
\* returns a value returns the whole value of the Set that last completed
\* on the key, never a truncated or mixed one; and once no call is running,
\* Get returns the value of the Set that completed last: no write is lost.
C11_NoLostNoTornWrite ==
    [][/\ \A c \in Callers :
            (/\ ret'.op = "Get" /\ ret'.err = Nil
             /\ (FileGetRead(c) \/ MemoryCall(c)))
                => (ret'.val \in Values /\ ret'.val = settled[ret'.key])
       /\ AllIdle' =>
            \A k \in Keys :
                settled'[k] # NoValue
                    => StoredValue(k)' = [val |-> settled'[k], err |-> Nil]]_vars

C11_Witness ==
    /\ kind = "file"
    /\ \E c1, c2 \in Callers, k \in Keys :
          /\ InCall(c1, "Get", "read") /\ calls[c1].id = k
          /\ InCall(c2, "Set", "write") /\ calls[c2].id = k
          /\ files[k].content = Truncated
          /\ settled[k] \in Values /\ settled[k] # calls[c2].val
          /\ ret.op = "Get" /\ ret.key = k /\ ret.val = settled[k]

\* C12: with callers running Set, Touch, Get and Exists at the same time,
\* and no Delete or Purge, no call that returns after a Set of its key has
\* returned fails, Exists then answers true, and when all callers are done
\* every key that was set is present.
C12_NoErrorAfterFirstSet ==
    [][/\ \A c \in Callers :
            (/\ calls'[c].pc = "idle"
             /\ ConcCall(c)
             /\ settled[ret'.key] # NoValue)
                => /\ ret'.err = Nil
                   /\ ret'.op = "Exists" => ret'.ok
                   /\ ret'.op = "Get" => ret'.val \in Values
       /\ AllIdle' =>
            \A k \in Keys : settled'[k] # NoValue => Present(k)']_vars

C12_Witness ==
    /\ kind = "file"
    /\ \A k \in Keys : settled[k] # NoValue
    /\ ret.op = "Exists" /\ ret.ok /\ ret.err = Nil
    /\ \E c1, c2 \in Callers :
          /\ InCall(c1, "Touch", "chtimes")
          /\ InCall(c2, "Set", "write") /\ calls[c2].id = calls[c1].id

\* the store was started: the directory of the FileStore exists
Healthy == kind = "file" => dirKind = "dir"

NotFoundErrors == {ErrNotFound, ErrSessionNotFound}

\* a GetSession that has returned after it passed its two checks
GetSessionRan ==
    sess.op = "GetSession" /\ sess.pc = "done" /\ sess.log # <<>>

\* C13: on a started store, a GetSession that passed the Enabled and id
\* checks never returns a not-found error, whatever Delete or Purge runs
\* between its Exists, Set, Get and Touch.
C13_GetSessionAtomic ==
    (GetSessionRan /\ Healthy) => sess.err \notin NotFoundErrors

C13_Witness ==
    /\ GetSessionRan /\ Healthy
    /\ sess.err \in NotFoundErrors
    /\ \E i \in DOMAIN sess.log : sess.log[i] = Made("Set", Nil)

\* the GetSession that returned found no entry and took the creating branch
CreatedFirst ==
    /\ GetSessionRan
    /\ Len(sess.log) >= 3
    /\ sess.log[3].call = "Set"

\* C14: on a started store, a GetSession of an id that has no entry returns
\* without error the session of that id with empty data, Changed and
\* Destroyed false, and afterwards the store holds an entry for the id,
\* put there by GetSession itself and by no SaveSession.
C14_FirstGetCreates ==
    (CreatedFirst /\ Healthy)
        => /\ sess.err = Nil
           /\ sess.out = Session(sess.id, FALSE, EmptyData, FALSE)
           /\ Present(sess.id)
           /\ ExistsOn(sess.id)
           /\ Entries[sess.id].Value = Encode(EmptyData).val

C14_Witness ==
    /\ CreatedFirst /\ Healthy
    /\ kind = "file"
    /\ sess.err = Nil
    /\ sess.out.Data = EmptyData
    /\ Present(sess.id)

\* how often GetSession made the named call
Count(log, call) == Cardinality({i \in DOMAIN log : log[i].call = call})

\* the position of the first call of that name
FirstCall(log, call) ==
    CHOOSE i \in DOMAIN log :
        log[i].call = call /\ \A j \in DOMAIN log : log[j].call = call => i <= j

\* C15: a GetSession that succeeds has called Store.Get and then
\* Store.Touch, each exactly once, also after creating the entry; the
\* entry's time is then the time of the GetSession call and its bytes are
\* the bytes it read; and Engine.Purge leaves alone, unchanged, every entry
\* whose age is within ageLimit.
C15_TouchOnRead ==
    [][/\ (sess'.err = Nil /\ GetSessionTouch)
            => /\ Count(sess'.log, "Get") = 1
               /\ Count(sess'.log, "Touch") = 1
               /\ FirstCall(sess'.log, "Get") < FirstCall(sess'.log, "Touch")
               /\ (CreatedFirst' => FirstCall(sess'.log, "Set") < FirstCall(sess'.log, "Get"))
               /\ Present(sess.id)'
               /\ Entries'[sess.id].LastTouched = sess.at
               /\ sess.at = now
               /\ Entries'[sess.id].Value = sess.bytes
               /\ Entries'[sess.id].Value = Entries[sess.id].Value
       /\ (sess'.op = "Purge" /\ sess'.err = Nil /\ EnginePurge)
            => \A k \in Keys :
                   (Present(k) /\ now - Entries[k].LastTouched <= AgeLimit)
                       => Present(k)' /\ Entries'[k] = Entries[k]]_vars

C15_Witness ==
    /\ GetSessionRan
    /\ sess.err = Nil
    /\ sess.out.Data = StrData
    /\ now > 0
    /\ Entries[sess.id].LastTouched = now
    /\ \E k \in Keys : k # sess.id /\ Present(k) /\ Entries[k].LastTouched < now

\* the session data json.Unmarshal itself produces in a map[string]any:
\* strings and float64 numbers (a Go int is not among them)
JsonNative == {StrData, FloatData}

\* the entry of id holds what a successful SaveSession(id, Session{Data: d})
\* stored, and nothing wrote, deleted or purged it since
SavedAs(id, d) ==
    /\ Encode(d).err = Nil
    /\ Present(id)
    /\ settled[id] = Encode(d).val
    /\ Entries[id].Value = Encode(d).val

\* C16: SaveSession(id, s) followed by a successful GetSession(id), nothing
\* having written, deleted or purged id in between, returns the session
\* of id with Data equal to s.Data, Changed false and Destroyed false, for
\* every session data s.Data.
C16_SaveThenGet ==
    \A d \in Datas :
        (GetSessionRan /\ sess.err = Nil /\ SavedAs(sess.id, d))
            => sess.out = Session(sess.id, FALSE, d, FALSE)

\* C16 (amended): the same, for session data made of the values the JSON
\* decoder produces (strings, float64 numbers).
C16_SaveThenGetJson ==
    \A d \in JsonNative :
        (GetSessionRan /\ sess.err = Nil /\ SavedAs(sess.id, d))
            => sess.out = Session(sess.id, FALSE, d, FALSE)

C16_Witness ==
    /\ GetSessionRan
    /\ sess.err = Nil
    /\ SavedAs(sess.id, FloatData)
    /\ sess.out = Session(sess.id, FALSE, FloatData, FALSE)
    /\ \E k \in Keys : k # sess.id /\ SavedAs(k, StrData)

\* what a Set of val on the existing key id at the current time leaves
SetRefreshes(id, val) ==
    /\ Present(id)'
    /\ Entries'[id] = [Value |-> val, LastTouched |-> now]
    /\ Entries'[id].LastTouched >= Entries[id].LastTouched
    /\ (Entries[id].LastTouched < now
            => Entries'[id].LastTouched > Entries[id].LastTouched)
    /\ ~Expired(Entries'[id], AgeLimit, now)
    /\ \A k \in Keys \ {id} :
           Present(k)' = Present(k) /\ (Present(k) => Entries'[k] = Entries[k])

RefusedWith(err) ==
    /\ sess'.pc = "done"
    /\ sess'.err = err
    /\ err # Nil
    /\ sess'.log = <<>>
    /\ sess'.out = ZeroSession
    /\ ~sess'.ok
    /\ UNCHANGED <<data, files, dirKind>>

\* C18: with Enabled false, GetSession, SaveSession, SessionExists and
\* Purge return the disabled error; with an empty id GetSession and
\* SaveSession return an error; in each case no Store or Encoder call is
\* made and the store is unchanged.
C18_FailsClosed ==
    [][/\ (~enabled /\ sess'.op = "GetSession"
              /\ \E id \in Ids : GetSessionEnter(id))
            => RefusedWith(ErrDisabled)
       /\ (~enabled /\ sess'.op = "SaveSession"
              /\ \E id \in Ids, d \in Datas : SaveSession(id, d))
            => RefusedWith(ErrDisabled)
       /\ (~enabled /\ sess'.op = "SessionExists"
              /\ \E id \in Ids : SessionExists(id))
            => RefusedWith(ErrDisabled)
       /\ (~enabled /\ sess'.op = "Purge" /\ EnginePurge)
            => RefusedWith(ErrDisabled)
       /\ (enabled /\ sess'.op = "GetSession" /\ GetSessionEnter(EmptyId))
            => RefusedWith(ErrEmptyId)
       /\ (enabled /\ sess'.op = "SaveSession" /\ sess'.id = EmptyId
              /\ \E d \in Datas : SaveSession(EmptyId, d))
            => RefusedWith(ErrEmptyId)]_vars

C18_Witness ==
    /\ ~enabled
    /\ sess.op = "Purge" /\ sess.pc = "done"
    /\ sess.err = ErrDisabled
    /\ sess.log = <<>>
    /\ \E k \in Keys : IsExpired(k)

\* an engine operation has returned after making at least one call
EngineOpRan ==
    /\ sess.op \in {"GetSession", "SaveSession", "SessionExists", "Purge"}
    /\ sess.pc = "done"
    /\ sess.log # <<>>

\* C19: when a Store or Encoder call made by GetSession, SaveSession,
\* SessionExists or Engine.Purge returns an error, that call is the last
\* one the operation makes and its error is the error the operation returns.
C19_ErrorsPropagate ==
    EngineOpRan
        => \A i \in DOMAIN sess.log :
               sess.log[i].err # Nil
                   => i = Len(sess.log) /\ sess.err = sess.log[i].err

C19_Witness ==
    /\ EngineOpRan
    /\ sess.op = "GetSession"
    /\ \E i \in DOMAIN sess.log :
           /\ sess.log[i] = Made("Set", ErrDir)
           /\ i < Len(sess.log)
    /\ sess.err # ErrDir

\* C20: Touch on a key that the store does not hold returns a not-found
\* error and changes nothing: no entry or file is created for the key and
\* every entry keeps its value and its time, in MemoryStore and FileStore.
C20_TouchAbsent ==
    [][\A id \in Keys :
          (ret'.op = "Touch" /\ ret'.key = id /\ ~Present(id) /\ StoreTouch(id))
              => /\ ret'.err \in NotFoundErrors
                 /\ ret'.err = (IF kind = "file" THEN ErrSessionNotFound
                                ELSE ErrNotFound)
                 /\ ~Present(id)'
                 /\ Entries' = Entries
                 /\ UNCHANGED <<data, files, dirKind>>]_vars

C20_Witness ==
    /\ ret.op = "Touch"
    /\ ret.err \in NotFoundErrors
    /\ ~Present(ret.key)
    /\ kind = "file"
    /\ \E k \in Keys : Present(k) /\ Entries[k].LastTouched < now

\* every entry but the one of id is as it was
OthersKept(id) ==
    \A k \in Keys \ {id} :
        Present(k)' = Present(k) /\ (Present(k) => Entries'[k] = Entries[k])

\* C21: a successful Touch(k) on an existing key sets the expiry clock of k
\* to the time of the call and leaves the value of k as it was: Get(k)
\* returns the same value before and after the Touch.
C21_TouchKeepsValue ==
    [][\A id \in Keys :
          (/\ ret'.op = "Touch" /\ ret'.key = id /\ ret'.err = Nil
           /\ Present(id)
           /\ StoreTouch(id))
              => /\ Present(id)'
                 /\ Entries'[id].LastTouched = now
                 /\ Entries'[id].Value = Entries[id].Value
                 /\ StoredValue(id)' = StoredValue(id)
                 /\ StoredValue(id)'.err = Nil
                 /\ OthersKept(id)]_vars

C21_Witness ==
    /\ ret.op = "Touch" /\ ret.err = Nil
    /\ kind = "file"
    /\ now > 0
    /\ Present(ret.key)
    /\ Entries[ret.key] = [Value |-> "val", LastTouched |-> now]
    /\ refreshed[ret.key] = Event("Touch", now)

\* C22: Store.Get never refreshes the expiry clock: a Get, successful or
\* not, leaves the value and the time of every entry as they were and
\* creates no entry; a Get of an absent key returns a not-found error and
\* no value.
C22_GetIsReadOnly ==
    [][\A id \in Keys :
          (ret'.op = "Get" /\ ret'.key = id /\ StoreGet(id))
              => /\ UNCHANGED <<data, files, dirKind>>
                 /\ Entries' = Entries
                 /\ (Present(id) => ret'.val = Entries[id].Value)
                 /\ (~Present(id)
                        => /\ ret'.err \in NotFoundErrors
                           /\ ret'.val = NoValue)]_vars

C22_Witness ==
    /\ ret.op = "Get" /\ ret.err \in NotFoundErrors /\ ret.val = NoValue
    /\ ~Present(ret.key)
    /\ \E k \in Keys : Present(k) /\ Entries[k].LastTouched < now

\* C23: immediately after a successful Get, Set or Touch of a key, the key,
\* when present, has a lastTouched (or mtime) no older than ageLimit.
C23_FreshAfterAccess ==
    [][\A id \in Keys :
          (/\ ret'.op \in {"Get", "Set", "Touch"} /\ ret'.key = id
           /\ ret'.err = Nil
           /\ Present(id)'
           /\ \/ StoreGet(id)
              \/ StoreTouch(id)
              \/ \E val \in Values : StoreSet(id, val))
              => now - Entries'[id].LastTouched <= AgeLimit]_vars

C23_Witness ==
    /\ ret.op = "Get" /\ ret.err = Nil /\ ret.val \in Values
    /\ IsExpired(ret.key)

\* no Set of id has succeeded, or id was deleted since the last one that did
NotSetYet(id) == refreshed[id].by = "none"

\* the call before this one was a successful Set of id
JustSet(id) == ret.op = "Set" /\ ret.key = id /\ ret.err = Nil

\* C24: in both stores Exists(k) returns false and no error as long as no
\* Set of k has succeeded, and true and no error right after a successful
\* Set of k; a Set of another key does not change what Exists(k) returns.
C24_ExistsFollowsSet ==
    [][/\ \A id \in Keys :
            (ret'.op = "Exists" /\ ret'.key = id /\ StoreExists(id))
                => /\ ret'.err = Nil
                   /\ ret'.ok = Present(id)
                   /\ (NotSetYet(id) => ~ret'.ok)
                   /\ (JustSet(id) => ret'.ok)
       /\ \A id \in Keys : \A k \in Keys \ {id} :
            (ret'.op = "Set" /\ ret'.key = k
               /\ \E val \in Values : StoreSet(k, val))
                => /\ ExistsOn(id)' = ExistsOn(id)
                   /\ Present(id)' = Present(id)]_vars

C24_Witness ==
    /\ ret.op = "Exists" /\ ret.ok /\ ret.err = Nil
    /\ refreshed[ret.key] = Event("Set", now)
    /\ \E k \in Keys : NotSetYet(k) /\ ~Present(k)

\* C25: Delete(k) returns no error whether or not k is present; afterwards
\* Exists(k) is false and Get(k) fails with a not-found error; a Delete of
\* an absent key changes nothing in the store.
C25_DeleteRemoves ==
    [][\A id \in Keys :
          (ret'.op = "Delete" /\ ret'.key = id /\ StoreDelete(id))
              => /\ ret'.err = Nil
                 /\ ~Present(id)'
                 /\ ~ExistsOn(id)'
                 /\ StoredValue(id)'.err \in NotFoundErrors
                 /\ StoredValue(id)'.val = NoValue
                 /\ OthersKept(id)
                 /\ (~Present(id) => UNCHANGED <<data, files, dirKind>>)]_vars

C25_Witness ==
    /\ ret.op = "Delete" /\ ret.err = Nil
    /\ kind = "file" /\ dirKind = "dir"
    /\ ~Present(ret.key)
    /\ refreshed[ret.key].by = "none"
    /\ \E k \in Keys : Present(k) /\ settled[k] \in Values

\* the files of a listing that are still on disk and older than maxAge
DueFiles(list, fs, maxAge, t) ==
    {f \in list \cap DOMAIN fs : t - fs[f].ModTime > maxAge}

\* C26: a FileStore.Purge whose listing holds a file that has disappeared
\* since (a Delete ran after os.ReadDir) returns no error and still
\* examines the other files: every listed file that is due is removed.
C26_VanishedFileSkipped ==
    [][\A i \in Callers :
          (TaskAt(i, "scan") /\ TaskScan(i))
              => /\ FilePurgeScan(files, tasks[i].list, AgeLimit, now).err = Nil
                 /\ hist'.purgeFailed = hist.purgeFailed
                 /\ DueFiles(tasks[i].list, files, AgeLimit, now)
                        \cap DOMAIN files' = {}]_vars

C26_Witness ==
    /\ kind = "file" /\ dirKind = "dir"
    /\ hist.purgeFailed
    /\ \E i \in DOMAIN tasks : tasks[i].pc = "select"
    /\ \E k \in Keys : IsExpired(k)

\* C27: the step a FileStore method takes under the lock finds the file as
\* the method's existence check saw it, whatever the other callers do in
\* between: the os.Remove of a Delete, the os.ReadFile of a Get and the
\* os.Chtimes of a Touch find the file and return no error (two Deletes of
\* one key running at the same time both return nil).
C27_CheckAndActUnderLock ==
    [][\A c \in Callers :
          (/\ calls[c].pc \in {"remove", "read", "chtimes"}
           /\ (FileDeleteRemove(c) \/ FileGetRead(c) \/ FileTouchChtimes(c)))
              => /\ FileExists(files, calls[c].id)
                 /\ ret'.err = Nil]_vars

C27_Witness ==
    /\ kind = "file"
    /\ ret.op = "Delete" /\ ret.err = ErrStat
    /\ ~FileExists(files, ret.key)
    /\ AllIdle

\* C28: Stop is a legal transition only from Started: a Stop of an engine
\* that was never started does not return nil, while a Stop of a started
\* engine, the first or a repeated one, returns what Store.Stop returns.
C28_StopOnlyFromStarted ==
    [][\A c \in Callers :
          (ret'.op = "Stop" /\ StopSeq(c))
              => /\ (~started => ret'.err # Nil)
                 /\ (started => ret'.err = Nil)]_vars

C28_Witness ==
    /\ ret.op = "Stop" /\ ret.err = Nil
    /\ ~started
    /\ ~hist.entered
    /\ ~hist.stopped

\* a method of Session other than Destroy was called on the Session
OtherMethodCalled ==
    \/ SessionClear
    \/ \E key \in DataKeys : SessionDelete(key)
    \/ \E key \in DataKeys : SessionGet(key)
    \/ \E key \in DataKeys : SessionHas(key)
    \/ \E key \in DataKeys, val \in Values : SessionSet(key, val)

\* C29: on a Session with Destroyed = true, Set, Delete and Clear fail with
\* the session-destroyed error and leave Data and Changed as they were, and
\* Get and Has fail with the same error.
C29_DestroyedRefusesAll ==
    [][(/\ session.Destroyed
        /\ result'.op \in {"Set", "Delete", "Clear", "Get", "Has"}
        /\ OtherMethodCalled)
            => /\ result'.err = ErrDestroyed
               /\ ~result'.panic
               /\ session'.Data = session.Data
               /\ session'.DataNil = session.DataNil
               /\ session'.Changed = session.Changed]_vars

C29_Witness ==
    /\ session.Destroyed
    /\ result.op = "Clear"
    /\ result.err = Nil

\* the Session is destroyed and holds an empty map
DestroyedEmpty ==
    /\ session.Destroyed
    /\ session.Data = EmptyMap
    /\ ~session.DataNil

\* C30: when Destroy has been called, whatever it returned (nil, an error,
\* a panic), the Session has Destroyed = true and empty Data, and every
\* later method of Session leaves it so.
C30_DestroyIsPermanent ==
    [][/\ (result'.op = "Destroy" /\ SessionDestroy) => DestroyedEmpty'
       /\ (session.Destroyed /\ (OtherMethodCalled \/ SessionDestroy))
            => DestroyedEmpty /\ DestroyedEmpty']_vars

C30_Witness ==
    /\ DestroyedEmpty
    /\ session.Ctx = "background"
    /\ result.op = "Set"
    /\ result.err = ErrDestroyed

\* C31: no method of Session (Get, Set, Has, Delete, Clear, Destroy) writes
\* to the engine or to the store: the entries of the store are the same
\* before and after the method, and the method made no engine call.
C31_SessionNeverStores ==
    [][(result'.op # "none" /\ (OtherMethodCalled \/ SessionDestroy))
          => /\ result'.stored = <<>>
             /\ UNCHANGED <<data, files, settled>>
             /\ Entries' = Entries]_vars

C31_Witness ==
    /\ result.op = "Destroy"
    /\ result.stored # <<>>
    /\ result.stored[1].err = Nil
    /\ Present(session.Id)
    /\ Entries[session.Id].Value = Encode(EmptyData).val

\* C32: the Session GetSession returned has Changed = false until a method
\* is called; a Set, Delete or Clear that succeeds on a Session that is not
\* destroyed leaves Changed = true, Delete also when the key was absent;
\* and no method of Session sets Changed back to false.
C32_ChangedOnlyRises ==
    [][(result'.op # "none" /\ (OtherMethodCalled \/ SessionDestroy))
          => /\ (result.op = "none" => ~session.Changed)
             /\ (/\ result'.op \in {"Set", "Delete", "Clear"}
                 /\ ~session.Destroyed
                 /\ result'.err = Nil /\ ~result'.panic) => session'.Changed
             /\ session.Changed => session'.Changed
             /\ (result'.op \in {"Get", "Has"}
                    => session'.Changed = session.Changed)]_vars

C32_Witness ==
    /\ result.op = "Delete" /\ result.err = Nil
    /\ result.key \notin DOMAIN session.Data
    /\ session.Data # EmptyMap
    /\ session.Changed
    /\ ~session.Destroyed

\* C39: Set(k), Touch(k) and Delete(k), whether they succeed or fail, leave
\* every other key as it was: its presence, its value and its time.
C39_OtherKeysKept ==
    [][\A id \in Keys :
          (/\ ret'.op \in {"Set", "Touch", "Delete"} /\ ret'.key = id
           /\ \/ \E val \in Values : StoreSet(id, val)
              \/ StoreTouch(id)
              \/ StoreDelete(id))
              => /\ OthersKept(id)
                 /\ \A j \in Keys \ {id} :
                        /\ ExistsOn(j)' = ExistsOn(j)
                        /\ StoredValue(j)' = StoredValue(j)]_vars

C39_Witness ==
    /\ ret.op = "Delete"
    /\ ~Present(ret.key)
    /\ now > 0
    /\ \E j \in Keys \ {ret.key} :
          Present(j) /\ Entries[j] = [Value |-> "bar", LastTouched |-> 0]

\* C40: in the MemoryStore the lastTouched of a key that stays present never
\* decreases and is never later than the clock; a Set or a Touch of the key
\* sets it to the time of the call, and Get, Exists, Purge and the
\* operations on other keys leave it as it was.
C40_LastTouchedMonotone ==
    [][kind = "memory" =>
          \A k \in DOMAIN data :
              /\ data[k].LastTouched <= now
              /\ k \in DOMAIN data' =>
                    /\ data'[k].LastTouched >= data[k].LastTouched
                    /\ data'[k].LastTouched <= now'
                    /\ IF /\ ret'.op \in {"Set", "Touch"}
                          /\ ret'.key = k /\ ret'.err = Nil
                          /\ \/ \E val \in Values : StoreSet(k, val)
                             \/ StoreTouch(k)
                       THEN data'[k].LastTouched = now
                       ELSE data'[k].LastTouched = data[k].LastTouched]_vars

C40_Witness ==
    /\ kind = "memory"
    /\ ret.op = "Purge" /\ ret.err = Nil
    /\ now = MaxTime
    /\ \E k \in DOMAIN data : data[k].LastTouched = now
    /\ \E k \in DOMAIN data : data[k].LastTouched < now

\* C36: once the context passed to Start has been cancelled, the periodic
\* purge task begins no new Purge, also when a tick is pending at the
\* moment of the cancellation.
C36_NoPurgeAfterCancel ==
    [][\A i \in DOMAIN tasks :
          (tasks[i].pc = "select" /\ tasks'[i].pc = "purge" /\ TaskTick(i))
              => ~ctxDone[tasks[i].ctx]]_vars

C36_Witness ==
    \E i \in DOMAIN tasks :
        /\ TaskAt(i, "select")
        /\ tasks[i].tick
        /\ ctxDone[tasks[i].ctx]
        /\ purgeDone = "open"

\* C37: Start marks the engine started and launches the purge task before
\* it calls Store.Start; it returns what Store.Start returns, and after a
\* failure the engine stays started with its task, so that a retry returns
\* AlreadyStarted and does not call Store.Start again.
C37_FailedStartStaysStarted ==
    [][\A c \in Callers :
          /\ (ret'.op = "Start" /\ StartStore(c))
                => /\ started
                   /\ RequiresPurge(kind) => \E i \in DOMAIN tasks : tasks[i].ctx = c
                   /\ ret'.err = EngineStoreStart(kind, dirKind).err
                   /\ started'
                   /\ tasks' = tasks /\ purgeDone' = purgeDone
          /\ (ret'.op = "Start" /\ hist.storeStarts > 0 /\ StartEnterSeq(c))
                => /\ ret'.err = ErrAlreadyStarted
                   /\ hist'.storeStarts = hist.storeStarts
                   /\ startPc' = startPc
                   /\ started' /\ tasks' = tasks]_vars

C37_Witness ==
    /\ ret.op = "Start" /\ ret.err = ErrAlreadyStarted
    /\ hist.storeStarts = 1 /\ hist.okStarts = 0
    /\ started
    /\ \E i \in DOMAIN tasks : tasks[i].pc = "purge"

\* C38: while enabled is false a Purge of the periodic task returns the
\* disabled error without calling Store.Purge and removes no entry; the
\* task goes back to its select with a new ticker, and a Purge it begins
\* when enabled is true again calls Store.Purge.
C38_DisabledTaskKeepsTicking ==
    [][\A i \in DOMAIN tasks :
          (tasks[i].pc = "purge" /\ tasks'[i].pc # "purge" /\ TaskPurge(i))
              => IF ~enabled
                 THEN /\ Entries' = Entries
                      /\ UNCHANGED <<data, files, settled, refreshed>>
                      /\ tasks'[i] = NewTask(tasks[i].ctx)
                      /\ hist'.purgeFailed
                      /\ hist'.timerPurged = hist.timerPurged
                 ELSE /\ hist'.timerPurged
                      /\ kind = "memory" =>
                            data' = MemoryPurgeData(data, AgeLimit, now)
                      /\ (kind = "file" /\ dirKind = "dir") =>
                            /\ tasks'[i].pc = "scan"
                            /\ tasks'[i].list = DOMAIN files]_vars

C38_Witness ==
    /\ hist.purgeFailed /\ hist.timerPurged
    /\ enabled
    /\ kind = "memory"
    /\ \E k \in Keys : ~Present(k) /\ refreshed[k].by = "Purge"
    /\ \E k \in Keys : Present(k)
    /\ \E i \in DOMAIN tasks : TaskAt(i, "select") /\ ~tasks[i].tick

\* C34: Chain(h, m1, ..., mn) builds m1(m2(...mn(h))): on every request the
\* middlewares run in the order they were passed and h runs last, and when
\* a middleware does not call next nothing after it runs for that request.
C34_ChainOrder ==
    chain.pc # "new" =>
        LET order == chain.ms \o FinalHandler IN
        /\ chain.handler = order
        /\ Len(chain.ran) <= Len(order)
        /\ \A i \in 1..Len(chain.ran) : chain.ran[i] = order[i]
        /\ chain.pc = "serving" =>
              /\ ~chain.blocked
              /\ chain.ran \o chain.todo = order
        /\ (chain.pc = "idle" /\ chain.ran # <<>>) =>
              IF chain.blocked
              THEN chain.ran[Len(chain.ran)] = chain.ms[Len(chain.ran)]
                   /\ Len(chain.ran) <= Len(chain.ms)
              ELSE chain.ran = order

C34_Witness ==
    /\ chain.pc = "idle"
    /\ chain.blocked
    /\ Len(chain.ms) = MaxChain
    /\ chain.ms[1] # chain.ms[2] /\ chain.ms[2] # chain.ms[3]
    /\ Len(chain.ran) = 2

\* the engine calls and the handler call of the request, in order
MwCalls == SelectSeq(request.log, LAMBDA x : x # "SetCookie")

\* C33: the Sessioned middleware keeps the id of the cookie only when the
\* cookie is present and its session exists, and takes a fresh NewId
\* otherwise; it calls GetSession before the handler, calls the handler
\* once when GetSession succeeded and not at all, answering 500, when it
\* failed, and saves the session only after the handler has returned.
C33_SessionedOrder ==
    [][/\ (request.pc = "exists" /\ request'.pc = "get") =>
             LET kept == /\ request.cookie.present
                         /\ EngineFileExists(dirKind, files, request.cookie.value) IN
             /\ kept <=> request'.newIds = 0
             /\ kept => request'.id = request.cookie.value
             /\ ~kept => /\ request'.newIds = 1
                         /\ request'.id \in Keys
                         /\ ~EngineFileExists(dirKind, files, request'.id)
       /\ request'.pc = "get" => MwCalls' = <<>>
       /\ request'.pc = "next" => MwCalls' = <<"GetSession">>
       /\ request'.pc = "store" => MwCalls' = <<"GetSession", "next">>
       /\ request'.pc = "done" =>
             IF request'.status = "500"
             THEN MwCalls' = <<"GetSession", "500">>
             ELSE MwCalls' = <<"GetSession", "next", "StoreSession">>]_vars

C33_Witness ==
    /\ request.pc = "done"
    /\ request.cookie.present
    /\ request.cookie.value \in Keys
    /\ request.id # request.cookie.value
    /\ MwCalls = <<"GetSession", "next", "StoreSession">>
    /\ EngineFileExists(dirKind, files, request.id)
    /\ files[request.id].content = Encode(StrData).val

\* how many times Server.Shutdown was called
ShutdownCalls == Len(SelectSeq(server.log, LAMBDA x : x = "Shutdown"))

\* Run has set s.cancel and has not returned, a signal is in the signal
\* channel or a TriggerShutdown has returned nil
ShutdownRequested ==
    /\ ServerUp
    /\ server.cancelSet /\ server.run # "returned"
    /\ server.sig \/ server.ctxDone

\* what holds of every shutdown: one Shutdown call at most, after the
\* CancelFunc when there is one; Run returns after the sequence; a
\* TriggerShutdown before s.cancel is set returns the error and starts
\* nothing
ShutdownSequence ==
    /\ ShutdownCalls <= 1
    /\ ShutdownCalls = 1 =>
          server.log = IF server.hasCancelFunc THEN <<"CancelFunc", "Shutdown">>
                       ELSE <<"Shutdown">>
    /\ server.run = "returned" =>
          /\ ShutdownCalls = 1 /\ server.done /\ server.waiter = "done"
    /\ ~server.cancelSet =>
          /\ server.lastTrigger \in {"none", "error"}
          /\ ~server.ctxDone /\ server.log = <<>> /\ server.waiter = "none"

\* C35: once Run is running, a signal on the signal channel or a
\* TriggerShutdown eventually leads to exactly one Server.Shutdown call,
\* preceded by the CancelFunc when one is set; Run returns only after the
\* shutdown sequence; TriggerShutdown before Run returns an error and
\* starts no shutdown.  (Read for a server whose ListenAndServe has not
\* failed.)
C35_ShutdownHappens ==
    /\ []ShutdownSequence
    /\ ShutdownRequested ~> (ShutdownCalls = 1 \/ server.listen = "failed")

\* C35 (amended): the same, unless the Logger's Fatalf ends the process
\* first, after a failure of ListenAndServe or of the CancelFunc.
C35_ShutdownUnlessFatal ==
    /\ []ShutdownSequence
    /\ ShutdownRequested ~> (ShutdownCalls = 1 \/ server.exited)

C35_Witness ==
    /\ server.run = "returned"
    /\ server.hasCancelFunc
    /\ server.lastTrigger = "nil"
    /\ server.log = <<"CancelFunc", "Shutdown">>
    /\ ~server.exited
====
